---- MODULE Spec2Model ----
(***************************************************************************)
(* A model of the via3 crawl-and-download scripts: the pagination          *)
(* inference, the search crawl, the project-listing crawl, the pipeline    *)
(* of eng/main.py and its download step.                                   *)
(*                                                                         *)
(* Text is a sequence of one-element strings.  The words "Pagina" and "di" *)
(* are single elements; digits, blanks and brackets are characters.        *)
(***************************************************************************)
EXTENDS Integers, Sequences, FiniteSets, TLC

VARIABLES
    pc,            \* position of the running script
    \* ---- pagination inference applied to one page
    pg_soup,       \* the pagination part of the page handed to the inference
    pg_page,       \* the caller's page counter when it asks
    pg_total,      \* what find_total_pages returned (label format)
    pg_count,      \* what the count-format find_total_pages returned
    \* ---- download step
    files,         \* the local disk: destination path -> what the file holds
    dl_tick,       \* flips at every download_file call
    dl_last,       \* the last download_file call
    dl_ret,        \* what the last download_file call returned to its caller
    \* ---- parse_coordinates
    co_text,       \* the text handed to parse_coordinates
    co_ret,        \* what parse_coordinates returned
    \* ---- the remote site and the run's inputs
    site,          \* what the registry may serve: hrefs, page sizes, totals
    typed,         \* what the user types at the keyword prompt
    choice,        \* what the user types at the search-type prompt
    keyword,       \* the search keyword, "" before the entry point has read it
    search_type,   \* "o" (progetti) or "d" (documenti), "" before it is chosen
    doc_variant,   \* whose get_document_links runs: "main" (eng/main.py) or
                   \* "app_logs" (eng/app_logs.py)
    dl_variant,    \* whose download_file runs: "main" (eng/main.py) or
                   \* "imparis2" (imparis2.py)
    csv_rows,      \* the records of projects_list.csv, in file order
    server,        \* how the registry answers: anything any time, or steadily
                   \* (the same answer whenever the same URL is asked)
    net_log,       \* the requests a steady registry got in this run, in order
    prev_run,      \* the requests and the disk of the run before this one
    last_net,      \* the last network event: a request or a sleep
    \* ---- collect_search_results
    page,          \* the page counter of the search crawl
    all_links,     \* the detail URLs accumulated so far
    total_pages,   \* the total inferred from the page fetched last
    scanned,       \* anchors of the current page already looked at
    seen,          \* every matching link served so far, resolved
    reqs,          \* the search URLs requested, in order
    failed_at,     \* the page whose fetch failed, 0 when none did
    acc_prev,      \* all_links when the previous page was finished
    story,         \* T while every page i so far printed "Pagina i di T"
    labelled,      \* the page parsed last carried a pagination label that parses
    \* ---- collect_search_results of the project-listing scripts
    list_variant,  \* "it" (list_projects.py) or "eng" (eng/list_projects.py)
    lp_page,       \* the page counter
    all_projects,  \* the project records accumulated so far
    lp_total,      \* total_pages, NONE before it is known
    lp_rows,       \* data rows of the current page already looked at
    lp_stated,     \* the total the page fetched last states, NONE before any
    \* ---- main of main.py and the stages it drives
    detail_urls,   \* what collect_search_results returned
    projects,      \* the records the selected-projects driver kept
    di,            \* index in detail_urls of the detail URL being processed
    project_folder,\* the folder of the project being processed
    dirs,          \* the folders that exist on the local disk
    resolved,      \* the detail URLs handed on so far, with their project ids
    procedura_links,\* get_procedura_links: the links accumulated so far
    d_scanned,     \* anchors of the detail page already looked at
    procedure_urls,\* what get_procedura_links returned
    pj,            \* index in procedure_urls of the procedure being crawled
    doc_page,      \* get_document_links: the page counter
    doc_links,     \* get_document_links: the (url, file name) pairs so far
    doc_total,     \* get_document_links: the total inferred last
    doc_rows,      \* data rows of the current documents page already read
    doc_reqs,      \* the document-page URLs requested for this procedure
    doc_labelled,  \* the documents page parsed last carried a label that parses
    doc_story,     \* the total printed by the documents page read last, else 0
    doc_fail,      \* why the crawl of this procedure broke off: "none",
                   \* "fetch" (request failed) or "table" (no documents table)
    doc_row,       \* the data row read last on the current page
    dk             \* index in doc_links of the document being downloaded

pagVars == <<pg_soup, pg_page, pg_total, pg_count>>
coordVars == <<co_text, co_ret>>
dlVars == <<files, dl_tick, dl_last, dl_ret>>
inputVars == <<site, typed, choice, keyword, search_type, doc_variant, dl_variant,
               csv_rows, server>>
runVars == <<inputVars, net_log, prev_run>>
searchVars == <<page, all_links, total_pages, scanned, seen, reqs, failed_at,
                acc_prev, story, labelled>>

listVars == <<list_variant, lp_page, all_projects, lp_total, lp_rows, lp_stated>>

mainVars == <<detail_urls, projects, di, project_folder, dirs, resolved, procedure_urls,
              pj, dk>>
detailVars == <<procedura_links, d_scanned>>
docVars == <<doc_page, doc_links, doc_total, doc_rows, doc_reqs,
             doc_labelled, doc_story, doc_fail, doc_row>>
pipeVars == <<mainVars, detailVars, docVars>>

vars == <<pc, pagVars, coordVars, dlVars, runVars, last_net, searchVars, listVars, pipeVars>>

(***************************************************************************)
(* Bounds of the model.                                                    *)
(***************************************************************************)
MaxLabelNum == 12      \* largest number printed in a pagination label
MaxResultCount == 31   \* largest result count printed as "(N)"
MaxLoopPage == 3       \* largest page counter a caller holds when it asks

(***************************************************************************)
(* Text: digits, decimal formatting and int().                             *)
(***************************************************************************)
Digits == {"0", "1", "2", "3", "4", "5", "6", "7", "8", "9"}
Blanks == {" "}

DigitChar(d) ==
    CASE d = 0 -> "0" [] d = 1 -> "1" [] d = 2 -> "2" [] d = 3 -> "3"
      [] d = 4 -> "4" [] d = 5 -> "5" [] d = 6 -> "6" [] d = 7 -> "7"
      [] d = 8 -> "8" [] d = 9 -> "9"

DigitVal(c) == CHOOSE d \in 0..9 : DigitChar(d) = c

RECURSIVE str(_)
str(n) == IF n < 10 THEN <<DigitChar(n)>>
          ELSE Append(str(n \div 10), DigitChar(n % 10))

RECURSIVE int(_)
int(s) == IF s = <<>> THEN 0
          ELSE 10 * int(SubSeq(s, 1, Len(s) - 1)) + DigitVal(s[Len(s)])

\* the last index of the longest run of characters of S that starts at i
\* (i - 1 when s[i] is not in S): a greedy \s+ or \d+
RunEnd(s, i, S) ==
    CHOOSE j \in (i - 1)..Len(s) :
        /\ \A k \in i..j : s[k] \in S
        /\ (j = Len(s) \/ s[j + 1] \notin S)

(***************************************************************************)
(* re.search(r'Pagina\s+(\d+)\s+di\s+(\d+)', text): the groups of the      *)
(* leftmost match, or <<>> when there is none.                             *)
(***************************************************************************)
LabelMatchAt(s, i) ==
    LET w1 == RunEnd(s, i + 1, Blanks)
        d1 == RunEnd(s, w1 + 1, Digits)
        w2 == RunEnd(s, d1 + 1, Blanks)
        w3 == RunEnd(s, w2 + 2, Blanks)
        d2 == RunEnd(s, w3 + 1, Digits)
    IN  IF /\ s[i] = "Pagina"
           /\ w1 >= i + 1
           /\ d1 >= w1 + 1
           /\ w2 >= d1 + 1
           /\ w2 + 1 <= Len(s)
           /\ s[w2 + 1] = "di"
           /\ w3 >= w2 + 2
           /\ d2 >= w3 + 1
        THEN <<SubSeq(s, w1 + 1, d1), SubSeq(s, w3 + 1, d2)>>
        ELSE <<>>

LabelSearch(s) ==
    LET hits == {i \in 1..Len(s) : LabelMatchAt(s, i) # <<>>}
    IN  IF hits = {} THEN <<>>
        ELSE LabelMatchAt(s, CHOOSE i \in hits : \A j \in hits : i <= j)

(***************************************************************************)
(* re.search(r'\((\d+)\)', text): the digits of the leftmost match, or     *)
(* <<>> when there is none.                                                *)
(***************************************************************************)
CountMatchAt(s, i) ==
    LET d == RunEnd(s, i + 1, Digits)
    IN  IF /\ s[i] = "("
           /\ d >= i + 1
           /\ d + 1 <= Len(s)
           /\ s[d + 1] = ")"
        THEN SubSeq(s, i + 1, d)
        ELSE <<>>

CountSearch(s) ==
    LET hits == {i \in 1..Len(s) : CountMatchAt(s, i) # <<>>}
    IN  IF hits = {} THEN <<>>
        ELSE CountMatchAt(s, CHOOSE i \in hits : \A j \in hits : i <= j)

(***************************************************************************)
(* The pagination part of a fetched page (soup):                           *)
(*   ul    - a <ul class="pagination"> is present                          *)
(*   li    - it holds a <li class="etichettaRicerca">                      *)
(*   text  - the text of that li                                           *)
(*   h3    - a <h3 class="risultati"> is present                           *)
(*   h3text- its text                                                      *)
(***************************************************************************)
Soup(ul, li, text, h3, h3text) ==
    [ul |-> ul, li |-> li, text |-> text, h3 |-> h3, h3text |-> h3text]

LabelText(x, y) == <<"Pagina", " ">> \o str(x) \o <<" ", "di", " ">> \o str(y)
CountText(n) == <<"Risultati", " ", "(">> \o str(n) \o <<")">>

NoSoup == Soup(FALSE, FALSE, <<>>, FALSE, <<>>)
LabelSoup(x, y) == Soup(TRUE, TRUE, LabelText(x, y), FALSE, <<>>)
CountSoup(n) == Soup(FALSE, FALSE, <<>>, TRUE, CountText(n))

\* labels that do not parse: a word for the total, no "di", no current page
BadLabels ==
    { <<"Pagina", " ", "1", " ", "di", " ", "x">>,
      <<"Pagina", " ", "1", " ", "2">>,
      <<"Pagina", " ", "di", " ", "2">>,
      <<>> }

\* the same label, wrapped and padded as a site may print it
LabelVariants(x, y) ==
    { LabelText(x, y),
      <<"x", " ">> \o LabelText(x, y) \o <<" ", "x">>,
      <<"Pagina", " ", " ">> \o str(x) \o <<" ", "di", " ", "0">> \o str(y) }

(***************************************************************************)
(* find_total_pages of main.py: the total printed in the label, else 1.    *)
(***************************************************************************)
find_total_pages_default2(soup) ==
    IF ~soup.ul THEN 2
    ELSE IF ~soup.li THEN 2
    ELSE LET m == LabelSearch(soup.text)
         IN  IF m # <<>> THEN int(m[2]) ELSE 2

find_total_pages_group1(soup) ==
    IF ~soup.ul THEN 1
    ELSE IF ~soup.li THEN 1
    ELSE LET m == LabelSearch(soup.text)
         IN  IF m # <<>> THEN int(m[1]) ELSE 1

find_total_pages(soup) ==
    IF ~soup.ul THEN 1
    ELSE IF ~soup.li THEN 1
    ELSE LET m == LabelSearch(soup.text)
         IN  IF m # <<>> THEN int(m[2]) ELSE 1

\* lines 42-51: the page has the pagination list, the label item in it,
\* and a label text the pattern matches
has_label(soup) == soup.ul /\ soup.li /\ LabelSearch(soup.text) # <<>>

(***************************************************************************)
(* find_total_pages of imparis.py, lines 66-80:                            *)
(* re.search(r'Pagina\s+\d+\s+di\s+(\d+)', text) has the total as its only *)
(* group.                                                                  *)
(***************************************************************************)
LabelSearchTotal(s) ==
    LET hits == {i \in 1..Len(s) : LabelMatchAt(s, i) # <<>>}
    IN  IF hits = {} THEN <<>>
        ELSE <<LabelMatchAt(s, CHOOSE i \in hits : \A j \in hits : i <= j)[2]>>

find_total_pages_imparis(soup) ==
    IF ~soup.ul THEN 1
    ELSE IF ~soup.li THEN 1
    ELSE LET m == LabelSearchTotal(soup.text)
         IN  IF m # <<>> THEN int(m[1]) ELSE 1

(***************************************************************************)
(* Whether get_document_links goes on to another page after page `pg`,     *)
(* whose pagination markup is `soup`:                                      *)
(*   "main"      eng/main.py 183-188: page >= find_total_pages(soup) ends  *)
(*   "selected"  eng/download_from_project_list.py 55-74: a missing list,  *)
(*               a missing label item and a label that does not match end  *)
(*               the loop, then page >= int(match.group(2)) does           *)
(*   "imparis"   imparis.py 120-123: as main, with its own find_total_pages*)
(***************************************************************************)
Crawlers == {"main", "selected", "imparis"}

more_pages(variant, pg, soup) ==
    IF variant = "selected"
    THEN IF ~soup.ul THEN FALSE
         ELSE IF ~soup.li THEN FALSE
         ELSE LET match == LabelSearch(soup.text)
              IN  IF match = <<>> THEN FALSE
                  ELSE ~(pg >= int(match[2]))
    ELSE IF variant = "imparis"
    THEN ~(pg >= find_total_pages_imparis(soup))
    ELSE ~(pg >= find_total_pages(soup))

(***************************************************************************)
(* find_total_pages of eng/list_projects.py: (N + 9) // 10 for the count   *)
(* "(N)" in the results heading, else 1.                                   *)
(***************************************************************************)
RESULTS_PER_PAGE == 10

find_total_pages_floor(soup) ==
    IF soup.h3
    THEN LET m == CountSearch(soup.h3text)
         IN  IF m # <<>> THEN int(m) \div RESULTS_PER_PAGE ELSE 1
    ELSE 1

find_total_pages_count(soup) ==
    IF soup.h3
    THEN LET m == CountSearch(soup.h3text)
         IN  IF m # <<>> THEN (int(m) + 9) \div RESULTS_PER_PAGE ELSE 1
    ELSE 1

(***************************************************************************)
(* URLs.  An absolute URL is [host, path]; an href as found in a page is   *)
(* [kind, host, path] with kind "abs" (scheme and host given), "root"      *)
(* (leading slash) or "rel" (no leading slash).  A path is a sequence of   *)
(* segments.                                                               *)
(***************************************************************************)
BASE_URL == [host |-> "https://va.mite.gov.it", path |-> <<>>, query |-> <<>>]

Url(host, path) == [host |-> host, path |-> path, query |-> <<>>]
Href(kind, host, path) == [kind |-> kind, host |-> host, path |-> path, query |-> <<>>]

IsAbsolute(u) == u.host # ""

\* the directory of a path: all but its last segment
DirOf(path) == IF path = <<>> THEN <<>> ELSE SubSeq(path, 1, Len(path) - 1)

\* the href taken as it stands, unresolved
urljoin_keep(base, href) == [host |-> href.host, path |-> href.path, query |-> href.query]

\* urllib.parse.urljoin(base, href)
urljoin(base, href) ==
    IF href.kind = "abs"
    THEN [host |-> href.host, path |-> href.path, query |-> href.query]
    ELSE IF href.kind = "root"
    THEN [host |-> base.host, path |-> href.path, query |-> href.query]
    ELSE [host |-> base.host, path |-> DirOf(base.path) \o href.path,
          query |-> href.query]

\* `pattern in href` for a pattern "/s1/s2/s3/": the segments occur in a
\* row, after a slash and before a slash
HrefContains(href, pattern) ==
    \E i \in 1..Len(href.path) :
        /\ i + Len(pattern) <= Len(href.path)
        /\ SubSeq(href.path, i, i + Len(pattern) - 1) = pattern
        /\ (href.kind = "rel" => i >= 2)

INFO_PATTERN == <<"it-IT", "Oggetti", "Info">>
DOC_PATTERN == <<"it-IT", "Oggetti", "Documentazione">>

ToSet(seq) == {seq[i] : i \in 1..Len(seq)}
NoDup(seq) == \A i, j \in 1..Len(seq) : seq[i] = seq[j] => i = j

\* a registry that may answer the same request differently each time
AnyServer == [steady |-> FALSE]
NoRun == [made |-> FALSE]

\* whether the request of `url` succeeds
ServedOk(url) == IF server.steady THEN {url \notin server.down} ELSE BOOLEAN

\* whether the documents page at `url` has its table
ServedTable(url) == IF server.steady THEN {url \notin server.bare} ELSE BOOLEAN

\* how the download of `url` goes: a steady registry always serves the
\* file or always fails to
ServedNet(url) ==
    IF server.steady
    THEN {IF url \in server.down THEN "transport_error" ELSE "ok"}
    ELSE {"ok", "transport_error", "open_error", "stream_error"}

\* the k-th anchor (or data row) of a page: any of `all`, or the k-th of
\* the ones a steady registry serves on pages of that kind
ServedItems(all, kind, k) ==
    IF server.steady
    THEN IF k <= Len(server[kind]) THEN {server[kind][k]} ELSE {}
    ELSE all

\* the page has been read to its end after k anchors (or rows)
PageRead(kind, k) == server.steady => k = Len(server[kind])

\* a request noted in the log of a steady registry, with how it went
Logged(kind, url, result) ==
    IF server.steady
    THEN Append(net_log, [kind |-> kind, url |-> url, result |-> result])
    ELSE net_log

\* the network events that the politeness delay is about
Requested == IF last_net \in {"request", "unthrottled_request"}
             THEN "unthrottled_request" ELSE "request"

(***************************************************************************)
(* download_file of main.py.                                               *)
(***************************************************************************)
FORBIDDEN == {"\\", "/", "*", "?", ":", "\"", "<", ">", "|"}

\* a substitution that leaves the slash alone
sanitize_keep_slash(nome_file) ==
    [i \in 1..Len(nome_file) |->
        IF nome_file[i] \in FORBIDDEN \ {"/"} THEN "_" ELSE nome_file[i]]

\* a substitution that leaves the colon alone
sanitize_keep_colon(nome_file) ==
    [i \in 1..Len(nome_file) |->
        IF nome_file[i] \in FORBIDDEN \ {":"} THEN "_" ELSE nome_file[i]]

\* a substitution that puts one "_" for a whole run of forbidden characters
RECURSIVE sanitize_squeeze(_)
sanitize_squeeze(nome_file) ==
    IF nome_file = <<>> THEN <<>>
    ELSE IF Len(nome_file) >= 2 /\ nome_file[1] \in FORBIDDEN /\ nome_file[2] \in FORBIDDEN
    THEN sanitize_squeeze(Tail(nome_file))
    ELSE <<IF nome_file[1] \in FORBIDDEN THEN "_" ELSE nome_file[1]>>
         \o sanitize_squeeze(Tail(nome_file))

\* re.sub(r'[\\/*?:"<>|]', "_", nome_file)
sanitize(nome_file) ==
    [i \in 1..Len(nome_file) |->
        IF nome_file[i] \in FORBIDDEN THEN "_" ELSE nome_file[i]]

\* os.path.join(save_path, safe_filename)
path_join(save_path, safe_filename) == [dir |-> save_path, name |-> safe_filename]

\* os.path.exists(local_path): a file written earlier, or the directory
\* itself (empty name, "."), or its parent ("..")
path_exists(local_path) ==
    \/ local_path \in DOMAIN files
    \/ local_path.name \in {<<>>, <<".">>, <<".", ".">>}

\* what the network and the disk do when download_file asks:
\*   "ok"              the body is streamed to the file
\*   "transport_error" requests.get or raise_for_status raises
\*   "open_error"      open(local_path, "wb") raises
\*   "stream_error"    iter_content or f.write raises after the file is open
DownloadOutcomes == {"ok", "transport_error", "open_error", "stream_error"}

NoCall == [made |-> FALSE]
Call(url, nome_file, save_path, existed, fetched, result) ==
    [made |-> TRUE, url |-> url, nome_file |-> nome_file, save_path |-> save_path,
     existed |-> existed, fetched |-> fetched, result |-> result]

\* what a download_file call hands back: Python's None, or the local path
PyNone == [kind |-> "None"]
RetPath(local_path) == [kind |-> "path", path |-> local_path]

\* main.py 207, 217-220: every way out of download_file returns None;
\* imparis2.py 263, 272, 275: the path when the file existed or was saved,
\* None when an exception was caught
returned(local_path, existed, net) ==
    IF dl_variant = "imparis2" /\ (existed \/ net = "ok")
    THEN RetPath(local_path) ELSE PyNone

download_file_nocheck(url, nome_file, save_path, net) ==
    LET local_path == path_join(save_path, sanitize(nome_file))
        existed == path_exists(local_path)
    IN  /\ dl_tick' = 1 - dl_tick
        /\ dl_last' = Call(url, nome_file, save_path, existed, TRUE, net)
        /\ dl_ret' = returned(local_path, FALSE, net)
        /\ last_net' = Requested
        /\ net_log' = Logged("download", url, net)
        /\ files' = IF net = "ok"
                      THEN (local_path :> [src |-> url, state |-> "complete"]) @@ files
                      ELSE IF net = "stream_error"
                      THEN (local_path :> [src |-> url, state |-> "partial"]) @@ files
                      ELSE files

\* a download that removes the file it could not finish
download_file_cleanup(url, nome_file, save_path, net) ==
    LET local_path == path_join(save_path, sanitize(nome_file))
        existed == path_exists(local_path)
    IN  /\ dl_tick' = 1 - dl_tick
        /\ dl_ret' = returned(local_path, existed, net)
        /\ IF existed
           THEN /\ dl_last' = Call(url, nome_file, save_path, TRUE, FALSE, "skipped")
                /\ files' = files
                /\ UNCHANGED <<last_net, net_log>>
           ELSE /\ dl_last' = Call(url, nome_file, save_path, FALSE, TRUE, net)
                /\ last_net' = Requested
                /\ net_log' = Logged("download", url, net)
                /\ files' = IF net = "ok"
                             THEN (local_path :> [src |-> url, state |-> "complete"]) @@ files
                             ELSE files

download_file(url, nome_file, save_path, net) ==
    LET local_path == path_join(save_path, sanitize(nome_file))
        existed == path_exists(local_path)
    IN  /\ dl_tick' = 1 - dl_tick
        /\ dl_ret' = returned(local_path, existed, net)
        /\ IF existed
           THEN /\ dl_last' = Call(url, nome_file, save_path, TRUE, FALSE, "skipped")
                /\ files' = files
                /\ UNCHANGED <<last_net, net_log>>
           ELSE /\ dl_last' = Call(url, nome_file, save_path, FALSE, TRUE, net)
                /\ last_net' = Requested
                /\ net_log' = Logged("download", url, net)
                /\ files' = IF net = "ok"
                             THEN (local_path :> [src |-> url, state |-> "complete"]) @@ files
                             ELSE IF net = "stream_error"
                             THEN (local_path :> [src |-> url, state |-> "partial"]) @@ files
                             ELSE files

\* lines 62-63: all_links = [], page = 1; nothing read or requested yet
SearchStart ==
    /\ page = 1
    /\ all_links = <<>>
    /\ total_pages = 0
    /\ scanned = 0
    /\ seen = {}
    /\ reqs = <<>>
    /\ failed_at = 0
    /\ acc_prev = <<>>
    /\ story = 0
    /\ labelled = FALSE

\* the locals of collect_search_results once it has returned
SearchReset ==
    /\ page' = 1
    /\ all_links' = <<>>
    /\ total_pages' = 0
    /\ scanned' = 0
    /\ seen' = {}
    /\ reqs' = <<>>
    /\ failed_at' = 0
    /\ acc_prev' = <<>>
    /\ story' = 0
    /\ labelled' = FALSE

(***************************************************************************)
(* collect_search_results of main.py.  A page is revealed as it is read:   *)
(* the fetch tells whether it succeeded, each scan step shows the next     *)
(* anchor, and the pagination part is shown when find_total_pages reads it.*)
(***************************************************************************)
build_search_url(kw, st, pg) ==
    [host |-> BASE_URL.host, path |-> <<"it-IT", "Ricerca", "ViaLibera">>,
     Testo |-> kw, t |-> st, pagina |-> pg]

link_pattern(st) == IF st = "o" THEN INFO_PATTERN ELSE DOC_PATTERN

\* the pagination parts a search or documents page may carry
SiteSoups ==
    {LabelSoup(x, y) : x \in 1..site.max_total, y \in 0..site.max_total}
    \cup {NoSoup, Soup(TRUE, FALSE, <<>>, FALSE, <<>>)}
    \cup {CountSoup(n) : n \in site.counts}
    \cup {Soup(TRUE, TRUE, <<"Pagina", " ", "1", " ", "2">>, FALSE, <<>>)}

\* the pagination markup a page may carry
ServedSoups == IF server.steady THEN {server.soup} ELSE SiteSoups

\* T when the page just read is page `pg` of a run of pages that all print
\* "Pagina i di T", else 0
StoryAfter(pg, soup) ==
    LET ts == {t \in 1..site.max_total : soup = LabelSoup(pg, t)}
    IN  IF ts = {} THEN 0
        ELSE LET t == CHOOSE x \in ts : TRUE
             IN  IF pg = 1 \/ story = t THEN t ELSE 0

SearchFetch_retry ==
    /\ pc = "search_fetch"
    /\ reqs' = Append(reqs, build_search_url(keyword, search_type, page))
    /\ last_net' = Requested
    /\ \E ok \in BOOLEAN :
        IF ok
        THEN /\ pc' = "search_scan"
             /\ scanned' = 0
             /\ UNCHANGED failed_at
        ELSE /\ pc' = IF failed_at = 0 THEN "search_fetch" ELSE "search_done"
             /\ failed_at' = page
             /\ UNCHANGED scanned
    /\ UNCHANGED <<page, all_links, total_pages, seen, acc_prev, story, labelled>>
    /\ UNCHANGED <<pagVars, coordVars, dlVars, runVars, listVars, pipeVars>>

\* a crawl that, in a run after an earlier one, takes the search pages as
\* walked already and requests none
SearchFetch_resume ==
    /\ pc = "search_fetch"
    /\ IF prev_run.made
       THEN /\ pc' = "search_done"
            /\ UNCHANGED <<reqs, last_net, net_log, scanned, failed_at>>
       ELSE /\ reqs' = Append(reqs, build_search_url(keyword, search_type, page))
            /\ last_net' = Requested
            /\ net_log' = Logged("listing", build_search_url(keyword, search_type, page), "")
            /\ \E ok \in ServedOk(build_search_url(keyword, search_type, page)) :
                IF ok
                THEN /\ pc' = "search_scan"
                     /\ scanned' = 0
                     /\ UNCHANGED failed_at
                ELSE /\ pc' = "search_done"
                     /\ failed_at' = page
                     /\ UNCHANGED scanned
    /\ UNCHANGED <<page, all_links, total_pages, seen, acc_prev, story, labelled>>
    /\ UNCHANGED <<pagVars, coordVars, dlVars, inputVars, prev_run, listVars, pipeVars>>

\* lines 65-75: build the URL, requests.get, raise_for_status
SearchFetch ==
    /\ pc = "search_fetch"
    /\ reqs' = Append(reqs, build_search_url(keyword, search_type, page))
    /\ last_net' = Requested
    /\ net_log' = Logged("listing", build_search_url(keyword, search_type, page), "")
    /\ \E ok \in ServedOk(build_search_url(keyword, search_type, page)) :
        IF ok
        THEN /\ pc' = "search_scan"
             /\ scanned' = 0
             /\ UNCHANGED failed_at
        ELSE /\ pc' = "search_done"
             /\ failed_at' = page
             /\ UNCHANGED scanned
    /\ UNCHANGED <<page, all_links, total_pages, seen, acc_prev, story, labelled>>
    /\ UNCHANGED <<pagVars, coordVars, dlVars, inputVars, prev_run, listVars, pipeVars>>

\* a link list that moves a link met again to its end
SearchScan_requeue ==
    /\ pc = "search_scan"
    /\ scanned < site.max_anchors
    /\ \E href \in ServedItems(site.search_hrefs, "search", scanned + 1) :
        LET full_url == urljoin(BASE_URL, href)
        IN  IF HrefContains(href, link_pattern(search_type))
            THEN /\ all_links' =
                        Append(SelectSeq(all_links, LAMBDA u : u # full_url), full_url)
                 /\ seen' = seen \cup {full_url}
            ELSE UNCHANGED <<all_links, seen>>
    /\ scanned' = scanned + 1
    /\ UNCHANGED <<pc, page, total_pages, reqs, failed_at, acc_prev, story, labelled>>
    /\ UNCHANGED <<pagVars, coordVars, dlVars, runVars, last_net, listVars, pipeVars>>

\* lines 82-86: one anchor of the page
SearchScan ==
    /\ pc = "search_scan"
    /\ scanned < site.max_anchors
    /\ \E href \in ServedItems(site.search_hrefs, "search", scanned + 1) :
        LET full_url == urljoin(BASE_URL, href)
        IN  IF HrefContains(href, link_pattern(search_type))
            THEN /\ all_links' = IF full_url \notin ToSet(all_links)
                                  THEN Append(all_links, full_url)
                                  ELSE all_links
                 /\ seen' = seen \cup {full_url}
            ELSE UNCHANGED <<all_links, seen>>
    /\ scanned' = scanned + 1
    /\ UNCHANGED <<pc, page, total_pages, reqs, failed_at, acc_prev, story, labelled>>
    /\ UNCHANGED <<pagVars, coordVars, dlVars, runVars, last_net, listVars, pipeVars>>

SearchPaginate_early ==
    /\ pc = "search_scan"
    /\ \E soup \in SiteSoups :
        LET total == find_total_pages(soup)
        IN  /\ total_pages' = total
            /\ story' = StoryAfter(page, soup)
            /\ labelled' = has_label(soup)
            /\ IF page + 1 >= total
               THEN /\ pc' = "search_done"
                    /\ UNCHANGED <<page, last_net>>
               ELSE /\ pc' = "search_fetch"
                    /\ page' = page + 1
                    /\ last_net' = "sleep"
    /\ acc_prev' = all_links
    /\ UNCHANGED <<all_links, scanned, seen, reqs, failed_at>>
    /\ UNCHANGED <<pagVars, coordVars, dlVars, runVars, listVars, pipeVars>>

\* lines 88-95: the anchors are exhausted; infer the total, stop or go on
SearchPaginate ==
    /\ pc = "search_scan"
    /\ PageRead("search", scanned)
    /\ \E soup \in ServedSoups :
        LET total == find_total_pages(soup)
        IN  /\ total_pages' = total
            /\ story' = StoryAfter(page, soup)
            /\ labelled' = has_label(soup)
            /\ IF page >= total
               THEN /\ pc' = "search_done"
                    /\ UNCHANGED <<page, last_net>>
               ELSE /\ pc' = "search_fetch"
                    /\ page' = page + 1
                    /\ last_net' = "sleep"
    /\ acc_prev' = all_links
    /\ UNCHANGED <<all_links, scanned, seen, reqs, failed_at>>
    /\ UNCHANGED <<pagVars, coordVars, dlVars, runVars, listVars, pipeVars>>

(***************************************************************************)
(* collect_search_results of list_projects.py ("it") and of                *)
(* eng/list_projects.py ("eng").  A data row of the results table is       *)
(* [cells, info, doc]: the number of its td cells, the href of the first   *)
(* anchor of cell 3 and of cell 4 (NoHref when the cell has none).         *)
(***************************************************************************)
NONE == -1
NoHref == Href("none", "", <<>>)

Row(cells, info, doc) == [cells |-> cells, info |-> info, doc |-> doc]

\* project_url.split("/")[-1], for a URL that has a path
split_last(u) == u.path[Len(u.path)]

Project(row) ==
    LET project_url == urljoin(BASE_URL, row.info)
    IN  [id |-> split_last(project_url),
         url |-> project_url,
         doc_url |-> IF row.doc # NoHref THEN urljoin(BASE_URL, row.doc) ELSE NoHref,
         title |-> "title", proponent |-> "proponent", status |-> "status",
         include |-> "YES"]

\* lines 47-59 (it), 47-64 (eng): fetch; any exception ends the crawl; the
\* eng script infers the total once, from the first page; no table ends it
ListFetch ==
    /\ pc = "list_fetch"
    /\ last_net' = Requested
    /\ \E ok \in BOOLEAN, table \in BOOLEAN, soup \in SiteSoups :
        IF ~ok
        THEN /\ pc' = "list_done"
             /\ UNCHANGED <<lp_total, lp_stated>>
        ELSE /\ lp_total' = IF list_variant = "eng" /\ lp_total = NONE
                             THEN find_total_pages_count(soup)
                             ELSE lp_total
             /\ lp_stated' = IF list_variant = "eng"
                              THEN find_total_pages_count(soup)
                              ELSE lp_stated
             /\ pc' = IF table THEN "list_rows" ELSE "list_done"
    /\ lp_rows' = 0
    /\ UNCHANGED <<list_variant, lp_page, all_projects>>
    /\ UNCHANGED <<pagVars, coordVars, dlVars, runVars, searchVars, pipeVars>>

\* lines 62-94 (it), 73-106 (eng): one data row
ListRow ==
    /\ pc = "list_rows"
    /\ lp_rows < site.max_rows
    /\ \E row \in site.rows :
        IF row.cells < 5 \/ row.info = NoHref
        THEN UNCHANGED all_projects
        ELSE all_projects' = Append(all_projects, Project(row))
    /\ lp_rows' = lp_rows + 1
    /\ UNCHANGED <<pc, list_variant, lp_page, lp_total, lp_stated>>
    /\ UNCHANGED <<pagVars, coordVars, dlVars, runVars, last_net, searchVars, pipeVars>>

\* lines 96-103 (it), 68-70 and 108-114 (eng): the rows are exhausted
ListPaginate ==
    /\ pc = "list_rows"
    /\ \E soup \in SiteSoups :
        LET total == IF list_variant = "it" THEN find_total_pages(soup) ELSE lp_total
        IN  /\ lp_total' = IF list_variant = "eng" /\ lp_rows = 0 THEN lp_total ELSE total
            /\ lp_stated' = IF list_variant = "it" THEN total ELSE lp_stated
            /\ IF (list_variant = "eng" /\ lp_rows = 0) \/ lp_page >= total
               THEN /\ pc' = "list_done"
                    /\ UNCHANGED <<lp_page, last_net>>
               ELSE /\ pc' = "list_fetch"
                    /\ lp_page' = lp_page + 1
                    /\ last_net' = "sleep"
    /\ UNCHANGED <<list_variant, all_projects, lp_rows>>
    /\ UNCHANGED <<pagVars, coordVars, dlVars, runVars, searchVars, pipeVars>>

\* str.strip(): the text without its leading and trailing blanks
strip(s) ==
    LET inked == {i \in 1..Len(s) : s[i] \notin Blanks}
    IN  IF inked = {} THEN <<>>
        ELSE SubSeq(s, CHOOSE i \in inked : \A j \in inked : i <= j,
                       CHOOSE i \in inked : \A j \in inked : i >= j)

\* main of list_projects.py (line 123) and of eng/list_projects.py (line
\* 134): the keyword typed, stripped, or "Sardegna" when that is empty
DEFAULT_KEYWORD == <<"S", "a", "r", "d", "e", "g", "n", "a">>

ListEntry ==
    /\ pc = "list_entry"
    /\ keyword' = IF strip(typed) = <<>> THEN DEFAULT_KEYWORD ELSE strip(typed)
    /\ pc' = "list_fetch"
    /\ UNCHANGED <<site, typed, choice, search_type, doc_variant, dl_variant, server>>
    /\ UNCHANGED <<last_net, net_log, prev_run, csv_rows>>
    /\ UNCHANGED <<pagVars, coordVars, dlVars, searchVars, listVars, pipeVars>>

ListStart(variant) ==
    /\ list_variant = variant
    /\ lp_page = 1
    /\ all_projects = <<>>
    /\ lp_total = NONE
    /\ lp_rows = 0
    /\ lp_stated = NONE

(***************************************************************************)
(* main of main.py, lines 249-267, with get_project_id,                    *)
(* get_procedura_links and get_document_links.                             *)
(***************************************************************************)
DOWNLOAD_FOLDER == "downloads"

\* os.makedirs(path, exist_ok=True): the folder and every folder above it
makedirs(path) == {SubSeq(path, 1, n) : n \in 1..Len(path)}

search_type_full(st) == IF st = "o" THEN "Progetti" ELSE "Documenti"

\* lines 245-246: os.path.join(DOWNLOAD_FOLDER, safe_keyword, search_type_full)
base_save_dir == <<DOWNLOAD_FOLDER, sanitize(keyword), search_type_full(search_type)>>

\* the digits a path segment starts with ("" when it starts with none)
LeadingDigits(seg) ==
    IF seg \in {"1", "2", "3", "4", "5", "6", "7"} THEN seg
    ELSE IF seg = "12bis" THEN "12"
    ELSE ""

\* an extraction that takes the whole segment after the marker
get_project_id_segment(detail_url) ==
    LET hits == {i \in 1..(Len(detail_url.path) - 1) : detail_url.path[i] = "Info"}
    IN  IF hits # {}
        THEN detail_url.path[(CHOOSE i \in hits : \A j \in hits : i <= j) + 1]
        ELSE "UnknownProject"

\* an extraction that also takes the digits after "Documentazione/"
get_project_id_docs(detail_url) ==
    LET hits == {i \in 1..(Len(detail_url.path) - 1) :
                    /\ detail_url.path[i] \in {"Info", "Documentazione"}
                    /\ LeadingDigits(detail_url.path[i + 1]) # ""}
    IN  IF hits # {}
        THEN LeadingDigits(detail_url.path[(CHOOSE i \in hits : \A j \in hits : i <= j) + 1])
        ELSE "UnknownProject"

\* re.search(r'/Info/(\d+)', detail_url): group 1 of the leftmost match
get_project_id(detail_url) ==
    LET hits == {i \in 1..(Len(detail_url.path) - 1) :
                    /\ detail_url.path[i] = "Info"
                    /\ LeadingDigits(detail_url.path[i + 1]) # ""}
    IN  IF hits # {}
        THEN LeadingDigits(detail_url.path[(CHOOSE i \in hits : \A j \in hits : i <= j) + 1])
        ELSE "UnknownProject"

\* a data row of the documents table: the number of its td cells, the text
\* of cell 1 and the href of the anchor of cell 8 that has an href and the
\* title "Scarica il documento" (NoHref when there is none)
DocRowOf(cols, nome_file, download) ==
    [cols |-> cols, nome_file |-> nome_file, download |-> download]

\* no row read yet on this page
NoRow == DocRowOf(0, <<>>, NoHref)

\* lines 222-247: the two prompts; an empty keyword or a choice other than
\* 1 and 2 ends the run (lines 225-227, 240-242), else the folder of the
\* search is made and the search crawl starts
MainEntry ==
    /\ pc = "main_entry"
    /\ keyword' = strip(typed)
    /\ IF strip(typed) = <<>>
       THEN /\ pc' = "rejected"
            /\ UNCHANGED <<search_type, dirs>>
       ELSE IF strip(choice) \notin {<<"1">>, <<"2">>}
       THEN /\ pc' = "rejected"
            /\ UNCHANGED <<search_type, dirs>>
       ELSE /\ search_type' = IF strip(choice) = <<"1">> THEN "o" ELSE "d"
            /\ dirs' = dirs \cup makedirs(<<DOWNLOAD_FOLDER, sanitize(strip(typed)),
                                            search_type_full(search_type')>>)
            /\ pc' = "search_fetch"
    /\ UNCHANGED <<site, typed, choice, doc_variant, dl_variant, server, last_net>>
    /\ UNCHANGED <<net_log, prev_run, csv_rows>>
    /\ UNCHANGED <<detail_urls, projects, di, project_folder, resolved, procedure_urls,
                   pj, dk>>
    /\ UNCHANGED <<pagVars, coordVars, dlVars, searchVars, listVars, detailVars, docVars>>

\* line 250: detail_urls = collect_search_results(...); the locals of the
\* call are gone once it has returned
MainStart ==
    /\ pc = "search_done"
    /\ detail_urls' = all_links
    /\ di' = 1
    /\ pc' = "main_detail"
    /\ SearchReset
    /\ UNCHANGED <<project_folder, dirs, projects, resolved, procedure_urls, pj, dk>>
    /\ UNCHANGED <<pagVars, coordVars, dlVars, runVars, last_net, listVars, detailVars, docVars>>

\* a main whose get_procedura_links lets a failed request escape
MainDetail_raise ==
    /\ pc = "main_detail"
    /\ IF di > Len(detail_urls)
       THEN /\ pc' = "done"
            /\ UNCHANGED <<project_folder, dirs, resolved, procedure_urls, pj, last_net,
                           detailVars>>
       ELSE LET detail_url == detail_urls[di]
                project_id == get_project_id(detail_url)
            IN  /\ project_folder' = Append(base_save_dir, project_id)
                /\ dirs' = dirs \cup makedirs(Append(base_save_dir, project_id))
                /\ resolved' = Append(resolved, [url |-> detail_url, id |-> project_id])
                /\ last_net' = Requested
                /\ procedura_links' = <<>>
                /\ d_scanned' = 0
                /\ UNCHANGED <<procedure_urls, pj>>
                /\ \E ok \in BOOLEAN :
                    pc' = IF ok THEN "detail_scan" ELSE "crashed"
    /\ UNCHANGED <<detail_urls, projects, di, dk>>
    /\ UNCHANGED <<pagVars, coordVars, dlVars, runVars, searchVars, listVars, docVars>>

MainDetail_skipfirst ==
    /\ pc = "main_detail"
    /\ IF di > Len(detail_urls)
       THEN /\ pc' = "done"
            /\ UNCHANGED <<project_folder, dirs, resolved, procedure_urls, pj, last_net,
                           detailVars, di>>
       ELSE IF di = 1 /\ Len(detail_urls) > 1
       THEN /\ di' = di + 1
            /\ UNCHANGED <<pc, project_folder, dirs, resolved, procedure_urls, pj, last_net,
                           detailVars>>
       ELSE LET detail_url == detail_urls[di]
                project_id == get_project_id(detail_url)
            IN  /\ project_folder' = Append(base_save_dir, project_id)
                /\ dirs' = dirs \cup makedirs(Append(base_save_dir, project_id))
                /\ resolved' = Append(resolved, [url |-> detail_url, id |-> project_id])
                /\ last_net' = Requested
                /\ procedura_links' = <<>>
                /\ d_scanned' = 0
                /\ UNCHANGED di
                /\ \E ok \in BOOLEAN :
                    IF ok
                    THEN /\ pc' = "detail_scan"
                         /\ UNCHANGED <<procedure_urls, pj>>
                    ELSE /\ pc' = "main_proc"
                         /\ procedure_urls' = <<>>
                         /\ pj' = 1
    /\ UNCHANGED <<detail_urls, projects, dk>>
    /\ UNCHANGED <<pagVars, coordVars, dlVars, runVars, searchVars, listVars, docVars>>

\* lines 253-258 and 116-124: the next detail URL, its project id and
\* folder, and the fetch of the detail page; line 267 when none is left
MainDetail ==
    /\ pc = "main_detail"
    /\ IF di > Len(detail_urls)
       THEN /\ pc' = "done"
            /\ UNCHANGED <<project_folder, dirs, resolved, procedure_urls, pj, last_net,
                           detailVars, net_log>>
       ELSE LET detail_url == detail_urls[di]
                project_id == get_project_id(detail_url)
            IN  /\ project_folder' = Append(base_save_dir, project_id)
                /\ dirs' = dirs \cup makedirs(Append(base_save_dir, project_id))
                /\ resolved' = Append(resolved, [url |-> detail_url, id |-> project_id])
                /\ last_net' = Requested
                /\ net_log' = Logged("listing", detail_url, "")
                /\ procedura_links' = <<>>
                /\ d_scanned' = 0
                /\ \E ok \in ServedOk(detail_url) :
                    IF ok
                    THEN /\ pc' = "detail_scan"
                         /\ UNCHANGED <<procedure_urls, pj>>
                    ELSE /\ pc' = "main_proc"
                         /\ procedure_urls' = <<>>
                         /\ pj' = 1
    /\ UNCHANGED <<detail_urls, projects, di, dk>>
    /\ UNCHANGED <<pagVars, coordVars, dlVars, inputVars, prev_run, searchVars, listVars, docVars>>

\* lines 130-135: one anchor of the detail page
DetailScan ==
    /\ pc = "detail_scan"
    /\ d_scanned < site.max_anchors
    /\ \E href \in ServedItems(site.detail_hrefs, "detail", d_scanned + 1) :
        LET full_url == urljoin(BASE_URL, href)
        IN  IF HrefContains(href, DOC_PATTERN)
            THEN procedura_links' = IF full_url \notin ToSet(procedura_links)
                                    THEN Append(procedura_links, full_url)
                                    ELSE procedura_links
            ELSE UNCHANGED procedura_links
    /\ d_scanned' = d_scanned + 1
    /\ UNCHANGED <<pc, last_net, mainVars>>
    /\ UNCHANGED <<pagVars, coordVars, dlVars, runVars, searchVars, listVars, docVars>>

\* lines 137-138: return procedura_links
DetailReturn ==
    /\ pc = "detail_scan"
    /\ PageRead("detail", d_scanned)
    /\ procedure_urls' = procedura_links
    /\ pj' = 1
    /\ pc' = "main_proc"
    /\ procedura_links' = <<>>
    /\ d_scanned' = 0
    /\ UNCHANGED <<detail_urls, di, project_folder, dirs, projects, resolved, dk, last_net>>
    /\ UNCHANGED <<pagVars, coordVars, dlVars, runVars, searchVars, listVars, docVars>>

\* a run that crawls a procedure once, however many detail pages link it
MainProc_once ==
    /\ pc = "main_proc"
    /\ IF pj > Len(procedure_urls)
       THEN /\ last_net' = "sleep"
            /\ di' = di + 1
            /\ pc' = "main_detail"
            /\ UNCHANGED <<pj, docVars>>
       ELSE IF \E i \in 1..Len(net_log) : net_log[i].url = procedure_urls[pj]
       THEN /\ pj' = pj + 1
            /\ UNCHANGED <<pc, di, last_net, docVars>>
       ELSE /\ doc_page' = 1
            /\ doc_links' = <<>>
            /\ doc_total' = 0
            /\ doc_rows' = 0
            /\ doc_reqs' = <<>>
            /\ doc_labelled' = FALSE
            /\ doc_story' = 0
            /\ doc_fail' = "none"
            /\ doc_row' = NoRow
            /\ pc' = "doc_fetch"
            /\ UNCHANGED <<pj, di, last_net>>
    /\ UNCHANGED <<detail_urls, project_folder, dirs, projects, resolved, procedure_urls, dk>>
    /\ UNCHANGED <<pagVars, coordVars, dlVars, runVars, searchVars, listVars, detailVars>>

\* lines 259-260 and 146-148: the next procedure URL; line 265 when none
\* is left
MainProc ==
    /\ pc = "main_proc"
    /\ IF pj > Len(procedure_urls)
       THEN /\ last_net' = "sleep"
            /\ di' = di + 1
            /\ pc' = "main_detail"
            /\ UNCHANGED docVars
       ELSE /\ doc_page' = 1
            /\ doc_links' = <<>>
            /\ doc_total' = 0
            /\ doc_rows' = 0
            /\ doc_reqs' = <<>>
            /\ doc_labelled' = FALSE
            /\ doc_story' = 0
            /\ doc_fail' = "none"
            /\ doc_row' = NoRow
            /\ pc' = "doc_fetch"
            /\ UNCHANGED <<di, last_net>>
    /\ UNCHANGED <<detail_urls, project_folder, dirs, projects, resolved, procedure_urls, pj, dk>>
    /\ UNCHANGED <<pagVars, coordVars, dlVars, runVars, searchVars, listVars, detailVars>>

\* line 152: the URL of page `pg` of a procedure
doc_page_url(procedura_url, pg) ==
    IF pg > 1
    THEN [procedura_url EXCEPT !.query =
            Append(@, [sep |-> IF @ # <<>> THEN "&" ELSE "?",
                       name |-> "pagina", value |-> pg])]
    ELSE procedura_url

\* a crawl that would drop what it has when a page lacks the table
DocFetch_forget ==
    /\ pc = "doc_fetch"
    /\ doc_reqs' = Append(doc_reqs, doc_page_url(procedure_urls[pj], doc_page))
    /\ last_net' = Requested
    /\ \E ok \in BOOLEAN, table \in BOOLEAN :
        IF ok /\ table
        THEN /\ pc' = "doc_rows"
             /\ UNCHANGED <<doc_fail, doc_story, doc_links>>
        ELSE /\ pc' = "doc_done"
             /\ doc_fail' = IF ok THEN "table" ELSE "fetch"
             /\ doc_story' = 0
             /\ doc_links' = IF ok THEN <<>> ELSE doc_links
    /\ doc_rows' = 0
    /\ doc_row' = NoRow
    /\ UNCHANGED <<doc_page, doc_total, doc_labelled>>
    /\ UNCHANGED mainVars
    /\ UNCHANGED <<pagVars, coordVars, dlVars, runVars, searchVars, listVars, detailVars>>

\* lines 150-166: fetch a documents page; a failure or a missing table
\* ends the crawl of this procedure
DocFetch ==
    /\ pc = "doc_fetch"
    /\ doc_reqs' = Append(doc_reqs, doc_page_url(procedure_urls[pj], doc_page))
    /\ last_net' = Requested
    /\ net_log' = Logged("listing", doc_page_url(procedure_urls[pj], doc_page), "")
    /\ \E ok \in ServedOk(doc_page_url(procedure_urls[pj], doc_page)),
          table \in ServedTable(doc_page_url(procedure_urls[pj], doc_page)) :
        IF ok /\ table
        THEN /\ pc' = "doc_rows"
             /\ UNCHANGED <<dk, doc_fail, doc_story>>
        ELSE /\ pc' = "doc_done"
             /\ doc_fail' = IF ok THEN "table" ELSE "fetch"
             /\ doc_story' = 0
             /\ UNCHANGED dk
    /\ doc_rows' = 0
    /\ doc_row' = NoRow
    /\ UNCHANGED <<doc_page, doc_links, doc_total, doc_labelled>>
    /\ UNCHANGED mainVars
    /\ UNCHANGED <<pagVars, coordVars, dlVars, inputVars, prev_run, searchVars, listVars, detailVars>>

\* a reader that takes the download anchor of any row, however short
DocRow_anycols ==
    /\ pc = "doc_rows"
    /\ doc_rows < site.max_rows
    /\ \E row \in site.doc_rows :
        /\ doc_row' = row
        /\ IF row.download = NoHref
           THEN UNCHANGED doc_links
           ELSE doc_links' = Append(doc_links,
                   [url |-> urljoin(BASE_URL, row.download), nome_file |-> row.nome_file])
    /\ doc_rows' = doc_rows + 1
    /\ UNCHANGED <<pc, last_net, doc_page, doc_total, doc_reqs, mainVars>>
    /\ UNCHANGED <<doc_labelled, doc_story, doc_fail>>
    /\ UNCHANGED <<pagVars, coordVars, dlVars, runVars, searchVars, listVars, detailVars>>

\* lines 170-181: one data row
DocRow ==
    /\ pc = "doc_rows"
    /\ doc_rows < site.max_rows
    /\ \E row \in ServedItems(site.doc_rows, "rows", doc_rows + 1) :
        /\ doc_row' = row
        /\ IF row.cols < 9 \/ row.download = NoHref
           THEN UNCHANGED doc_links
           ELSE doc_links' = Append(doc_links,
                   [url |-> urljoin(BASE_URL, row.download), nome_file |-> row.nome_file])
    /\ doc_rows' = doc_rows + 1
    /\ UNCHANGED <<pc, last_net, doc_page, doc_total, doc_reqs, mainVars>>
    /\ UNCHANGED <<doc_labelled, doc_story, doc_fail>>
    /\ UNCHANGED <<pagVars, coordVars, dlVars, runVars, searchVars, listVars, detailVars>>

\* a loop that stops only once it is past the total the page printed
DocPaginate_onemore ==
    /\ pc = "doc_rows"
    /\ doc_variant = "main"
    /\ PageRead("rows", doc_rows)
    /\ \E soup \in ServedSoups :
        LET total == find_total_pages(soup)
        IN  /\ doc_total' = total
            /\ doc_labelled' = has_label(soup)
            /\ doc_story' = IF has_label(soup) THEN total ELSE 0
            /\ IF doc_page > total
               THEN /\ pc' = "doc_done"
                    /\ UNCHANGED <<doc_page, last_net>>
               ELSE /\ pc' = "doc_fetch"
                    /\ doc_page' = doc_page + 1
                    /\ last_net' = "sleep"
    /\ doc_row' = NoRow
    /\ UNCHANGED <<doc_links, doc_rows, doc_reqs, doc_fail>>
    /\ UNCHANGED mainVars
    /\ UNCHANGED <<pagVars, coordVars, dlVars, runVars, searchVars, listVars, detailVars>>

\* lines 183-194: infer the total, stop or go on
DocPaginate ==
    /\ pc = "doc_rows"
    /\ doc_variant = "main"
    /\ PageRead("rows", doc_rows)
    /\ \E soup \in ServedSoups :
        LET total == find_total_pages(soup)
        IN  /\ doc_total' = total
            /\ doc_labelled' = has_label(soup)
            /\ doc_story' = IF has_label(soup) THEN total ELSE 0
            /\ IF doc_page >= total
               THEN /\ pc' = "doc_done"
                    /\ UNCHANGED <<doc_page, last_net>>
               ELSE /\ pc' = "doc_fetch"
                    /\ doc_page' = doc_page + 1
                    /\ last_net' = "sleep"
    /\ doc_row' = NoRow
    /\ UNCHANGED <<doc_links, doc_rows, doc_reqs, doc_fail>>
    /\ UNCHANGED mainVars
    /\ UNCHANGED <<pagVars, coordVars, dlVars, runVars, searchVars, listVars, detailVars>>

\* get_document_links of eng/app_logs.py, lines 187-212: the rows of the
\* one page it fetches are exhausted and doc_links is returned; whatever
\* the page prints about further pages is not read
DocSinglePage ==
    /\ pc = "doc_rows"
    /\ doc_variant = "app_logs"
    /\ PageRead("rows", doc_rows)
    /\ \E soup \in ServedSoups :
        /\ doc_labelled' = has_label(soup)
        /\ doc_story' = IF has_label(soup) THEN find_total_pages(soup) ELSE 0
    /\ pc' = "doc_done"
    /\ doc_row' = NoRow
    /\ UNCHANGED <<doc_page, doc_links, doc_total, doc_rows, doc_reqs, doc_fail>>
    /\ UNCHANGED <<last_net, mainVars>>
    /\ UNCHANGED <<pagVars, coordVars, dlVars, runVars, searchVars, listVars, detailVars>>

\* get_document_links of eng/download_from_project_list.py, lines 55-74:
\* the pagination check is written out in the loop; total_pages is bound
\* only when the label matches
DocPaginateInline ==
    /\ pc = "doc_rows"
    /\ doc_variant = "selected"
    /\ PageRead("rows", doc_rows)
    /\ \E soup \in ServedSoups :
        /\ doc_total' = IF has_label(soup) THEN int(LabelSearch(soup.text)[2])
                        ELSE doc_total
        /\ doc_labelled' = has_label(soup)
        /\ doc_story' = IF has_label(soup) THEN int(LabelSearch(soup.text)[2]) ELSE 0
        /\ IF more_pages("selected", doc_page, soup)
           THEN /\ pc' = "doc_fetch"
                /\ doc_page' = doc_page + 1
                /\ last_net' = "sleep"
           ELSE /\ pc' = "doc_done"
                /\ UNCHANGED <<doc_page, last_net>>
    /\ doc_row' = NoRow
    /\ UNCHANGED <<doc_links, doc_rows, doc_reqs, doc_fail>>
    /\ UNCHANGED mainVars
    /\ UNCHANGED <<pagVars, coordVars, dlVars, runVars, searchVars, listVars, detailVars>>

\* get_document_links of imparis.py, lines 120-125
DocPaginateImparis ==
    /\ pc = "doc_rows"
    /\ doc_variant = "imparis"
    /\ PageRead("rows", doc_rows)
    /\ \E soup \in ServedSoups :
        /\ doc_total' = find_total_pages_imparis(soup)
        /\ doc_labelled' = has_label(soup)
        /\ doc_story' = IF has_label(soup) THEN find_total_pages_imparis(soup) ELSE 0
        /\ IF more_pages("imparis", doc_page, soup)
           THEN /\ pc' = "doc_fetch"
                /\ doc_page' = doc_page + 1
                /\ last_net' = "sleep"
           ELSE /\ pc' = "doc_done"
                /\ UNCHANGED <<doc_page, last_net>>
    /\ doc_row' = NoRow
    /\ UNCHANGED <<doc_links, doc_rows, doc_reqs, doc_fail>>
    /\ UNCHANGED mainVars
    /\ UNCHANGED <<pagVars, coordVars, dlVars, runVars, searchVars, listVars, detailVars>>

\* a crawl that returns nothing when one of its pages failed
DocReturn_empty ==
    /\ pc = "doc_done"
    /\ pc' = "main_doc"
    /\ dk' = 1
    /\ doc_links' = IF doc_fail = "none" THEN doc_links ELSE <<>>
    /\ doc_page' = 1
    /\ doc_total' = 0
    /\ doc_rows' = 0
    /\ doc_reqs' = <<>>
    /\ doc_labelled' = FALSE
    /\ doc_story' = 0
    /\ doc_fail' = "none"
    /\ doc_row' = NoRow
    /\ UNCHANGED last_net
    /\ UNCHANGED <<detail_urls, di, project_folder, dirs, projects, resolved, procedure_urls, pj>>
    /\ UNCHANGED <<pagVars, coordVars, dlVars, runVars, searchVars, listVars, detailVars>>

\* lines 193-194 and 260-261: doc_links is returned; the other locals of
\* the call are gone
DocReturn ==
    /\ pc = "doc_done"
    /\ pc' = "main_doc"
    /\ dk' = 1
    /\ doc_page' = 1
    /\ doc_total' = 0
    /\ doc_rows' = 0
    /\ doc_reqs' = <<>>
    /\ doc_labelled' = FALSE
    /\ doc_story' = 0
    /\ doc_fail' = "none"
    /\ doc_row' = NoRow
    /\ UNCHANGED <<doc_links, last_net>>
    /\ UNCHANGED <<detail_urls, di, project_folder, dirs, projects, resolved, procedure_urls, pj>>
    /\ UNCHANGED <<pagVars, coordVars, dlVars, runVars, searchVars, listVars, detailVars>>

\* a loop that a failed download would end, and the run with it
MainDoc_abort ==
    /\ pc = "main_doc"
    /\ IF dk > Len(doc_links)
       THEN /\ pj' = pj + 1
            /\ pc' = "main_proc"
            /\ UNCHANGED <<dlVars, last_net>>
       ELSE /\ \E net \in DownloadOutcomes :
                /\ download_file(doc_links[dk].url, doc_links[dk].nome_file,
                                 project_folder, net)
                /\ pc' = IF dl_last'.result \in {"ok", "skipped"}
                         THEN "main_doc_sleep" ELSE "done"
            /\ UNCHANGED pj
    /\ UNCHANGED <<detail_urls, di, project_folder, dirs, projects, resolved, procedure_urls, dk>>
    /\ UNCHANGED <<pagVars, coordVars, runVars, searchVars, listVars, detailVars, docVars>>

\* a loop that passes over a document whose sanitized name an earlier
\* document of the list had
MainDoc_dedup ==
    /\ pc = "main_doc"
    /\ IF dk > Len(doc_links)
       THEN /\ pj' = pj + 1
            /\ pc' = "main_proc"
            /\ UNCHANGED <<dlVars, last_net, net_log>>
       ELSE /\ IF \E j \in 1..(dk - 1) :
                      sanitize(doc_links[j].nome_file) = sanitize(doc_links[dk].nome_file)
               THEN UNCHANGED <<dlVars, last_net, net_log>>
               ELSE \E net \in ServedNet(doc_links[dk].url) :
                        download_file(doc_links[dk].url, doc_links[dk].nome_file,
                                      project_folder, net)
            /\ pc' = "main_doc_sleep"
            /\ UNCHANGED pj
    /\ UNCHANGED <<detail_urls, di, project_folder, dirs, projects, resolved, procedure_urls, dk>>
    /\ UNCHANGED <<pagVars, coordVars, inputVars, prev_run, searchVars, listVars, detailVars, docVars>>

\* lines 261-262: download the next document of the procedure, or go on
\* with the next procedure when none is left
MainDoc ==
    /\ pc = "main_doc"
    /\ IF dk > Len(doc_links)
       THEN /\ pj' = pj + 1
            /\ pc' = "main_proc"
            /\ UNCHANGED <<dlVars, last_net, net_log>>
       ELSE /\ \E net \in ServedNet(doc_links[dk].url) :
                download_file(doc_links[dk].url, doc_links[dk].nome_file,
                              project_folder, net)
            /\ pc' = "main_doc_sleep"
            /\ UNCHANGED pj
    /\ UNCHANGED <<detail_urls, di, project_folder, dirs, projects, resolved, procedure_urls, dk>>
    /\ UNCHANGED <<pagVars, coordVars, inputVars, prev_run, searchVars, listVars, detailVars, docVars>>

\* line 263: time.sleep after each download_file call
MainDocSleep ==
    /\ pc = "main_doc_sleep"
    /\ last_net' = "sleep"
    /\ dk' = dk + 1
    /\ pc' = "main_doc"
    /\ UNCHANGED <<detail_urls, di, project_folder, dirs, projects, resolved, procedure_urls, pj>>
    /\ UNCHANGED <<pagVars, coordVars, dlVars, runVars, searchVars, listVars, detailVars, docVars>>

\* lines 269-270 and 15-17: the script is started again with what was
\* typed before; the disk is as the run before left it
MainRestart ==
    /\ pc = "done"
    /\ server.steady
    /\ ~prev_run.made
    /\ prev_run' = [made |-> TRUE, log |-> net_log, files |-> files]
    /\ net_log' = <<>>
    /\ pc' = "main_entry"
    /\ keyword' = <<>>
    /\ search_type' = ""
    /\ last_net' = "none"
    /\ dl_tick' = 0
    /\ dl_last' = NoCall
    /\ dl_ret' = PyNone
    /\ detail_urls' = <<>>
    /\ di' = 1
    /\ project_folder' = <<>>
    /\ resolved' = <<>>
    /\ procedure_urls' = <<>>
    /\ pj' = 1
    /\ dk' = 1
    /\ doc_links' = <<>>
    /\ UNCHANGED <<files, dirs, site, typed, choice, doc_variant, dl_variant, server>>
    /\ UNCHANGED <<csv_rows, projects>>
    /\ UNCHANGED <<doc_page, doc_total, doc_rows, doc_reqs, doc_labelled, doc_story,
                   doc_fail, doc_row>>
    /\ UNCHANGED <<pagVars, coordVars, searchVars, listVars, detailVars>>

PipeIdle ==
    /\ detail_urls = <<>>
    /\ di = 1
    /\ project_folder = <<>>
    /\ projects = <<>>
    /\ dirs = makedirs(<<DOWNLOAD_FOLDER>>)
    /\ resolved = <<>>
    /\ procedura_links = <<>>
    /\ d_scanned = 0
    /\ procedure_urls = <<>>
    /\ pj = 1
    /\ doc_page = 1
    /\ doc_links = <<>>
    /\ doc_total = 0
    /\ doc_rows = 0
    /\ doc_reqs = <<>>
    /\ doc_labelled = FALSE
    /\ doc_story = 0
    /\ doc_fail = "none"
    /\ doc_row = NoRow
    /\ dk = 1

(***************************************************************************)
(* The search crawl alone, against a registry of six projects.             *)
(***************************************************************************)
MaxAnchors == 2     \* anchors on one search page
MaxTotal == 3       \* largest total a pagination label prints

InfoPath(id) == INFO_PATTERN \o <<id>>
DocPath(id) == DOC_PATTERN \o <<id>>
BothKinds(path) == {Href("root", "", path), Href("abs", BASE_URL.host, path)}

SearchSite ==
    [search_hrefs |->
        UNION {BothKinds(InfoPath(id)) : id \in {"1", "2", "3", "4", "5", "6"}}
        \cup BothKinds(DocPath("7"))
        \cup {Href("root", "", <<"it-IT", "Ricerca">>)},
     detail_hrefs |-> {},
     rows |-> {},
     doc_rows |-> {},
     counts |-> {25},
     max_anchors |-> MaxAnchors,
     max_rows |-> 0,
     max_total |-> MaxTotal]

PagIdle ==
    /\ pg_soup = NoSoup
    /\ pg_page = 1
    /\ pg_total = 1
    /\ pg_count = 1

CoordIdle ==
    /\ co_text = <<>>
    /\ co_ret = PyNone

DlIdle ==
    /\ files = <<>>
    /\ dl_tick = 0
    /\ dl_last = NoCall
    /\ dl_ret = PyNone

SearchInit ==
    /\ pc = "search_fetch"
    /\ site = SearchSite
    /\ doc_variant = "main"
    /\ dl_variant = "main"
    /\ server = AnyServer
    /\ csv_rows = <<>>
    /\ net_log = <<>>
    /\ prev_run = NoRun
    /\ keyword = <<"e", "o", "l", "i", "c", "o">>
    /\ search_type \in {"o", "d"}
    /\ typed = keyword
    /\ choice = IF search_type = "o" THEN <<"1">> ELSE <<"2">>
    /\ last_net = "none"
    /\ SearchStart
    /\ PagIdle
    /\ CoordIdle
    /\ DlIdle
    /\ ListStart("it")
    /\ PipeIdle

SearchNext == SearchFetch \/ SearchScan \/ SearchPaginate

SpecSearch == SearchInit /\ [][SearchNext]_vars

(***************************************************************************)
(* The search crawl for projects against a registry whose search pages     *)
(* carry project links only, so that every anchor read is a link and an    *)
(* anchor that adds nothing is a link met before.                          *)
(***************************************************************************)
OrderMaxAnchors == 2   \* anchors on one search page
OrderMaxTotal == 2     \* largest total a pagination label prints

OrderSite ==
    [search_hrefs |->
        BothKinds(InfoPath("1")) \cup
        {Href("root", "", InfoPath("2")), Href("root", "", InfoPath("3"))},
     detail_hrefs |-> {},
     rows |-> {},
     doc_rows |-> {},
     counts |-> {25},
     max_anchors |-> OrderMaxAnchors,
     max_rows |-> 0,
     max_total |-> OrderMaxTotal]

OrderInit ==
    /\ pc = "search_fetch"
    /\ site = OrderSite
    /\ doc_variant = "main"
    /\ dl_variant = "main"
    /\ server = AnyServer
    /\ csv_rows = <<>>
    /\ net_log = <<>>
    /\ prev_run = NoRun
    /\ keyword = <<"e", "o", "l", "i", "c", "o">>
    /\ search_type = "o"
    /\ typed = keyword
    /\ choice = <<"1">>
    /\ last_net = "none"
    /\ SearchStart
    /\ PagIdle
    /\ CoordIdle
    /\ DlIdle
    /\ ListStart("it")
    /\ PipeIdle

OrderNext == SearchFetch \/ SearchScan \/ SearchPaginate

SpecOrder == OrderInit /\ [][OrderNext]_vars

(***************************************************************************)
(* The project-listing crawl of either script, against a registry of two   *)
(* projects.                                                               *)
(***************************************************************************)
MaxRows == 2        \* data rows on one page of the results table
ListMaxTotal == 2   \* largest total a pagination label of the listing prints

ListSite ==
    [search_hrefs |-> {},
     detail_hrefs |-> {},
     doc_rows |-> {},
     rows |->
        { Row(5, Href("root", "", InfoPath("1")), NoHref),
          Row(5, Href("abs", BASE_URL.host, InfoPath("1")), NoHref),
          Row(5, Href("root", "", InfoPath("1")), Href("root", "", DocPath("1"))),
          Row(5, Href("root", "", InfoPath("2")), NoHref),
          Row(4, Href("root", "", InfoPath("1")), NoHref),
          Row(5, NoHref, NoHref) },
     counts |-> {0, 10, 11, 25},
     max_anchors |-> 0,
     max_rows |-> MaxRows,
     max_total |-> ListMaxTotal]

\* what may be typed at the keyword prompt of the listing scripts
ListTyped == { <<" ">>, <<"e", "o", "l", "i", "c", "o">> }

ListInit ==
    /\ pc = "list_entry"
    /\ site = ListSite
    /\ doc_variant = "main"
    /\ dl_variant = "main"
    /\ server = AnyServer
    /\ csv_rows = <<>>
    /\ net_log = <<>>
    /\ prev_run = NoRun
    /\ typed \in ListTyped
    /\ keyword = <<>>
    /\ search_type = "o"
    /\ choice = <<"1">>
    /\ last_net = "none"
    /\ \E v \in {"it", "eng"} : ListStart(v)
    /\ PipeIdle
    /\ SearchStart
    /\ PagIdle
    /\ CoordIdle
    /\ DlIdle

ListNext == ListEntry \/ ListFetch \/ ListRow \/ ListPaginate

SpecList == ListInit /\ [][ListNext]_vars

(***************************************************************************)
(* A whole run of main.py against a registry of two projects.              *)
(***************************************************************************)
PipeMaxAnchors == 2   \* anchors on one search or detail page
PipeMaxRows == 1      \* data rows on one documents page
PipeMaxTotal == 2     \* largest total a pagination label prints

PipeSite ==
    [search_hrefs |->
        { Href("root", "", InfoPath("1")), Href("abs", BASE_URL.host, InfoPath("1")),
          Href("root", "", InfoPath("2")), Href("root", "", DocPath("7")) },
     detail_hrefs |->
        { Href("root", "", DocPath("1")), Href("abs", BASE_URL.host, DocPath("1")),
          Href("rel", "", <<"x">> \o DocPath("2")), Href("root", "", <<"it-IT", "Ricerca">>) },
     rows |-> {},
     doc_rows |->
        { DocRowOf(9, <<"a", "/", "b">>, Href("root", "", <<"File", "Documento", "1">>)),
          DocRowOf(8, <<"a">>, Href("root", "", <<"File", "Documento", "1">>)),
          DocRowOf(9, <<"a">>, NoHref) },
     counts |-> {},
     max_anchors |-> PipeMaxAnchors,
     max_rows |-> PipeMaxRows,
     max_total |-> PipeMaxTotal]

\* what may be typed at the two prompts of main
PipeTyped == { <<>>, <<" ">>, <<" ", "e", "o", "l", "i", "c", "o", " ">> }
PipeChoices == { <<"1">>, <<" ", "2">>, <<"3">>, <<>> }

Init ==
    /\ pc = "main_entry"
    /\ site = PipeSite
    /\ doc_variant = "main"
    /\ dl_variant = "main"
    /\ server = AnyServer
    /\ csv_rows = <<>>
    /\ net_log = <<>>
    /\ prev_run = NoRun
    /\ typed \in PipeTyped
    /\ choice \in PipeChoices
    /\ keyword = <<>>
    /\ search_type = ""
    /\ last_net = "none"
    /\ SearchStart
    /\ PagIdle
    /\ CoordIdle
    /\ DlIdle
    /\ ListStart("it")
    /\ PipeIdle

Next ==
    \/ MainEntry
    \/ SearchFetch
    \/ SearchScan
    \/ SearchPaginate
    \/ MainStart
    \/ MainDetail
    \/ DetailScan
    \/ DetailReturn
    \/ MainProc
    \/ DocFetch
    \/ DocRow
    \/ DocPaginate
    \/ DocReturn
    \/ MainDoc
    \/ MainDocSleep

Spec == Init /\ [][Next]_vars

(***************************************************************************)
(* A whole run of main.py, taken to its end, against a registry of two     *)
(* projects: the interpreter runs the script on, so a step that can be     *)
(* taken is taken.                                                         *)
(***************************************************************************)
LiveMaxAnchors == 1   \* anchors on one search or detail page
LiveMaxRows == 1      \* data rows on one documents page
LiveMaxTotal == 2     \* largest total a pagination label prints

LiveSite ==
    [search_hrefs |->
        { Href("root", "", InfoPath("1")), Href("root", "", InfoPath("2")),
          Href("root", "", DocPath("7")) },
     detail_hrefs |->
        { Href("root", "", DocPath("1")), Href("root", "", <<"it-IT", "Ricerca">>) },
     rows |-> {},
     doc_rows |->
        { DocRowOf(9, <<"a", "/", "b">>, Href("root", "", <<"File", "Documento", "1">>)),
          DocRowOf(8, <<"a">>, Href("root", "", <<"File", "Documento", "1">>)) },
     counts |-> {},
     max_anchors |-> LiveMaxAnchors,
     max_rows |-> LiveMaxRows,
     max_total |-> LiveMaxTotal]

LiveInit ==
    /\ pc = "main_entry"
    /\ site = LiveSite
    /\ doc_variant = "main"
    /\ dl_variant = "main"
    /\ server = AnyServer
    /\ csv_rows = <<>>
    /\ net_log = <<>>
    /\ prev_run = NoRun
    /\ typed \in PipeTyped
    /\ choice \in PipeChoices
    /\ keyword = <<>>
    /\ search_type = ""
    /\ last_net = "none"
    /\ SearchStart
    /\ PagIdle
    /\ CoordIdle
    /\ DlIdle
    /\ ListStart("it")
    /\ PipeIdle

SpecLive == LiveInit /\ [][Next]_vars /\ WF_vars(Next)

(***************************************************************************)
(* A whole run of main.py, for projects or for documents, against a        *)
(* registry whose search pages link two projects and two documentation     *)
(* pages.                                                                  *)
(***************************************************************************)
FoldersMaxAnchors == 2   \* anchors on one search or detail page
FoldersMaxRows == 1      \* data rows on one documents page
FoldersMaxTotal == 1     \* largest total a pagination label prints

FoldersSite ==
    [search_hrefs |->
        { Href("root", "", InfoPath("1")), Href("root", "", InfoPath("2")),
          Href("root", "", DocPath("6")), Href("root", "", DocPath("7")) },
     detail_hrefs |-> { Href("root", "", DocPath("1")) },
     rows |-> {},
     doc_rows |->
        { DocRowOf(9, <<"a", "/", "b">>, Href("root", "", <<"File", "Documento", "1">>)) },
     counts |-> {},
     max_anchors |-> FoldersMaxAnchors,
     max_rows |-> FoldersMaxRows,
     max_total |-> FoldersMaxTotal]

FoldersInit ==
    /\ pc = "main_entry"
    /\ site = FoldersSite
    /\ doc_variant = "main"
    /\ dl_variant = "main"
    /\ server = AnyServer
    /\ csv_rows = <<>>
    /\ net_log = <<>>
    /\ prev_run = NoRun
    /\ typed = <<"e", "o", "l", "i", "c", "o">>
    /\ choice \in {<<"1">>, <<"2">>}
    /\ keyword = <<>>
    /\ search_type = ""
    /\ last_net = "none"
    /\ SearchStart
    /\ PagIdle
    /\ CoordIdle
    /\ DlIdle
    /\ ListStart("it")
    /\ PipeIdle

SpecFolders == FoldersInit /\ [][Next]_vars

(***************************************************************************)
(* Two runs of main.py in a row, with the same keyword and search type,    *)
(* against a registry that answers steadily: every search page, every      *)
(* detail page and every documents page carries the same anchors, rows and *)
(* pagination label each time it is asked, and a URL that fails, fails     *)
(* every time.                                                             *)
(***************************************************************************)
RestartMaxAnchors == 2   \* anchors on one search or detail page
RestartMaxRows == 2      \* data rows on one documents page
RestartMaxTotal == 2     \* the total the pagination label prints

RestartSite ==
    [search_hrefs |-> {Href("root", "", InfoPath("1")), Href("root", "", InfoPath("2"))},
     detail_hrefs |-> {Href("root", "", DocPath("1")),
                       Href("root", "", <<"it-IT", "Ricerca">>)},
     rows |-> {},
     doc_rows |->
        { DocRowOf(9, <<"a", "/", "b">>, Href("root", "", <<"File", "Documento", "1">>)),
          DocRowOf(9, <<"a", "_", "b">>, Href("root", "", <<"File", "Documento", "2">>)),
          DocRowOf(8, <<"c">>, Href("root", "", <<"File", "Documento", "3">>)) },
     counts |-> {},
     max_anchors |-> RestartMaxAnchors,
     max_rows |-> RestartMaxRows,
     max_total |-> RestartMaxTotal]

\* a registry that serves everything: two projects on every search page,
\* one procedure on every detail page, two documents whose names sanitize
\* to the same file name on every documents page, two pages of each list
FullServer ==
    [steady |-> TRUE, down |-> {}, bare |-> {},
     soup |-> LabelSoup(1, RestartMaxTotal),
     search |-> [k \in 1..RestartMaxAnchors |->
                   Href("root", "", InfoPath(IF k = 1 THEN "1" ELSE "2"))],
     detail |-> <<Href("root", "", DocPath("1")), Href("root", "", <<"it-IT", "Ricerca">>)>>,
     rows |-> [k \in 1..RestartMaxRows |->
                 IF k = 1
                 THEN DocRowOf(9, <<"a", "/", "b">>,
                               Href("root", "", <<"File", "Documento", "1">>))
                 ELSE DocRowOf(9, <<"a", "_", "b">>,
                               Href("root", "", <<"File", "Documento", "2">>))]]

\* registries that differ from it in one respect: no pagination label, a
\* detail page that cannot be fetched, a second documents page that cannot
\* be fetched or has no table, files that cannot be downloaded, a short
\* row and a second file name, no procedure on the detail pages, the same
\* procedure twice on the detail pages
RestartServers ==
    { FullServer,
      [FullServer EXCEPT !.soup = NoSoup],
      [FullServer EXCEPT !.down = {Url(BASE_URL.host, InfoPath("2"))}],
      [FullServer EXCEPT !.down = {doc_page_url(Url(BASE_URL.host, DocPath("1")), 2)}],
      [FullServer EXCEPT !.bare = {doc_page_url(Url(BASE_URL.host, DocPath("1")), 2)}],
      [FullServer EXCEPT !.down = {Url(BASE_URL.host, <<"File", "Documento", "1">>),
                                   Url(BASE_URL.host, <<"File", "Documento", "2">>)}],
      [FullServer EXCEPT !.rows =
          [k \in 1..RestartMaxRows |->
              IF k = 1
              THEN DocRowOf(8, <<"c">>, Href("root", "", <<"File", "Documento", "3">>))
              ELSE DocRowOf(9, <<"d", ":">>,
                            Href("root", "", <<"File", "Documento", "2">>))]],
      [FullServer EXCEPT !.detail = <<Href("root", "", <<"it-IT", "Ricerca">>),
                                      Href("root", "", <<"it-IT", "Ricerca">>)>>],
      [FullServer EXCEPT !.detail = <<Href("root", "", DocPath("1")),
                                      Href("root", "", DocPath("1"))>>] }

RestartInit ==
    /\ pc = "main_entry"
    /\ site = RestartSite
    /\ doc_variant = "main"
    /\ dl_variant = "main"
    /\ server \in RestartServers
    /\ csv_rows = <<>>
    /\ net_log = <<>>
    /\ prev_run = NoRun
    /\ typed = <<"e", "o", "l", "i", "c", "o", " ">>
    /\ choice \in {<<"1">>, <<"2">>}
    /\ keyword = <<>>
    /\ search_type = ""
    /\ last_net = "none"
    /\ SearchStart
    /\ PagIdle
    /\ CoordIdle
    /\ DlIdle
    /\ ListStart("it")
    /\ PipeIdle

RestartNext == Next \/ MainRestart

SpecRestart == RestartInit /\ [][RestartNext]_vars

(***************************************************************************)
(* The first step of main's loop, which extracts the project id, for one   *)
(* detail URL whose path is any sequence of up to MaxIdSegments segments.  *)
(***************************************************************************)
MaxIdSegments == 3    \* segments in the path of the detail URL

IdSegments == {"it-IT", "Info", "Documentazione", "7", "12bis", "x"}

IdUrls ==
    UNION {{Url(BASE_URL.host, segs) : segs \in [1..n -> IdSegments]} :
              n \in 0..MaxIdSegments}

IdsInit ==
    /\ pc = "main_detail"
    /\ site = PipeSite
    /\ doc_variant = "main"
    /\ dl_variant = "main"
    /\ server = AnyServer
    /\ csv_rows = <<>>
    /\ net_log = <<>>
    /\ prev_run = NoRun
    /\ keyword = <<"e", "o", "l", "i", "c", "o">>
    /\ search_type = "o"
    /\ typed = keyword
    /\ choice = <<"1">>
    /\ last_net = "none"
    /\ SearchStart
    /\ PagIdle
    /\ CoordIdle
    /\ DlIdle
    /\ ListStart("it")
    /\ detail_urls \in {<<u>> : u \in IdUrls}
    /\ di = 1
    /\ project_folder = <<>>
    /\ projects = <<>>
    /\ dirs = makedirs(base_save_dir)
    /\ resolved = <<>>
    /\ procedura_links = <<>>
    /\ d_scanned = 0
    /\ procedure_urls = <<>>
    /\ pj = 1
    /\ doc_page = 1
    /\ doc_links = <<>>
    /\ doc_total = 0
    /\ doc_rows = 0
    /\ doc_reqs = <<>>
    /\ doc_labelled = FALSE
    /\ doc_story = 0
    /\ doc_fail = "none"
    /\ doc_row = NoRow
    /\ dk = 1

IdsNext == MainDetail

SpecIds == IdsInit /\ [][IdsNext]_vars

(***************************************************************************)
(* eng/download_from_project_list.py: the driver that reads                *)
(* projects_list.csv and downloads the documents of the records marked for *)
(* download.  It has its own copy of get_document_links, and its           *)
(* download_file is the one of eng/main.py.                                *)
(***************************************************************************)
MaxCsvRows == 2     \* records in projects_list.csv
SelMaxRows == 1     \* data rows on one documents page
SelMaxTotal == 1    \* largest total a pagination label prints

SelSite ==
    [LiveSite EXCEPT
        !.doc_rows = { DocRowOf(9, <<"a", "/", "b">>,
                                Href("root", "", <<"File", "Documento", "1">>)) },
        !.max_rows = SelMaxRows,
        !.max_total = SelMaxTotal]

\* what csv.DictReader gives for a field a short record does not have
NoField == "(None)"

\* the include fields a record can carry
Includes == {"YES", "yes", "NO", NoField}

\* str.upper on the include fields above
upper(text) == IF text = "yes" THEN "YES" ELSE text

\* record number i of projects_list.csv, as csv.DictReader yields it
CsvRow(i, include) ==
    [id |-> IF i = 1 THEN "1" ELSE IF i = 2 THEN "2" ELSE "3",
     doc_url |-> Url(BASE_URL.host,
                     DocPath(IF i = 1 THEN "1" ELSE IF i = 2 THEN "2" ELSE "3")),
     include |-> include]

CsvFiles ==
    UNION { { [i \in 1..n |-> CsvRow(i, marks[i])] : marks \in [1..n -> Includes] }
            : n \in 0..MaxCsvRows }

\* line 111: what the user types for the folder name
SelTyped == {<<"v", "/", "3", " ">>}

\* lines 111-116: os.path.join(DOWNLOAD_FOLDER, safe_folder)
base_folder == <<DOWNLOAD_FOLDER, sanitize(strip(typed))>>

\* lines 127-132: the records whose include field, upper-cased, is YES; a
\* record without the field makes .upper() raise, which nothing catches
SelRead ==
    /\ pc = "sel_read"
    /\ IF \E i \in 1..Len(csv_rows) : csv_rows[i].include = NoField
       THEN /\ pc' = "crashed"
            /\ UNCHANGED projects
       ELSE /\ projects' = SelectSeq(csv_rows, LAMBDA row : upper(row.include) = "YES")
            /\ pc' = "main_detail"
    /\ UNCHANGED <<detail_urls, di, project_folder, dirs, resolved, procedure_urls, pj, dk>>
    /\ UNCHANGED <<last_net, pagVars, coordVars, dlVars, runVars, searchVars, listVars, detailVars,
                   docVars>>

\* lines 135-141: the next kept record, its folder and its doc_url; line
\* 152 when none is left
SelProject ==
    /\ pc = "main_detail"
    /\ IF di > Len(projects)
       THEN /\ pc' = "done"
            /\ UNCHANGED <<project_folder, dirs, resolved, procedure_urls, pj>>
       ELSE LET project == projects[di]
                project_id == project.id
            IN  /\ project_folder' = Append(base_folder, project_id)
                /\ dirs' = dirs \cup makedirs(Append(base_folder, project_id))
                /\ resolved' = Append(resolved, [url |-> project.doc_url,
                                                 id |-> project_id])
                /\ procedure_urls' = <<project.doc_url>>
                /\ pj' = 1
                /\ pc' = "main_proc"
    /\ UNCHANGED <<detail_urls, projects, di, dk>>
    /\ UNCHANGED <<last_net, pagVars, coordVars, dlVars, runVars, searchVars, listVars, detailVars,
                   docVars>>

SelInit ==
    /\ pc = "sel_read"
    /\ site = SelSite
    /\ doc_variant = "selected"
    /\ dl_variant = "main"
    /\ server = AnyServer
    /\ csv_rows \in CsvFiles
    /\ net_log = <<>>
    /\ prev_run = NoRun
    /\ typed \in SelTyped
    /\ choice = <<>>
    /\ keyword = <<>>
    /\ search_type = ""
    /\ last_net = "none"
    /\ SearchStart
    /\ PagIdle
    /\ CoordIdle
    /\ DlIdle
    /\ ListStart("it")
    /\ detail_urls = <<>>
    /\ di = 1
    /\ project_folder = <<>>
    /\ projects = <<>>
    /\ dirs = makedirs(base_folder)
    /\ resolved = <<>>
    /\ procedura_links = <<>>
    /\ d_scanned = 0
    /\ procedure_urls = <<>>
    /\ pj = 1
    /\ doc_page = 1
    /\ doc_links = <<>>
    /\ doc_total = 0
    /\ doc_rows = 0
    /\ doc_reqs = <<>>
    /\ doc_labelled = FALSE
    /\ doc_story = 0
    /\ doc_fail = "none"
    /\ doc_row = NoRow
    /\ dk = 1

SelNext ==
    \/ SelRead
    \/ SelProject
    \/ MainProc
    \/ DocFetch
    \/ DocRow
    \/ DocPaginateInline
    \/ DocReturn
    \/ MainDoc
    \/ MainDocSleep

SpecSelected == SelInit /\ [][SelNext]_vars

(***************************************************************************)
(* get_document_links alone, called for one procedure URL, with or without *)
(* a query string, against pages of up to DocMaxRows data rows.            *)
(***************************************************************************)
DocMaxRows == 3     \* data rows on one documents page
DocMaxTotal == 2    \* largest total a pagination label of the documents prints

DocSite ==
    [search_hrefs |-> {},
     detail_hrefs |-> {},
     rows |-> {},
     doc_rows |->
        { DocRowOf(9, <<"a">>, Href("root", "", <<"File", "Documento", "1">>)),
          DocRowOf(10, <<"b">>, Href("abs", BASE_URL.host, <<"File", "Documento", "2">>)),
          DocRowOf(8, <<"c">>, Href("root", "", <<"File", "Documento", "3">>)),
          DocRowOf(9, <<"d">>, NoHref) },
     counts |-> {},
     max_anchors |-> 0,
     max_rows |-> DocMaxRows,
     max_total |-> DocMaxTotal]

DocProcUrls ==
    { Url(BASE_URL.host, DocPath("1")),
      [Url(BASE_URL.host, DocPath("1")) EXCEPT
          !.query = <<[sep |-> "?", name |-> "tab", value |-> 1]>>] }

DocsInit ==
    /\ pc = "doc_fetch"
    /\ site = DocSite
    /\ doc_variant \in {"main", "app_logs"}
    /\ dl_variant = "main"
    /\ server = AnyServer
    /\ csv_rows = <<>>
    /\ net_log = <<>>
    /\ prev_run = NoRun
    /\ keyword = <<"e", "o", "l", "i", "c", "o">>
    /\ search_type = "o"
    /\ typed = keyword
    /\ choice = <<"1">>
    /\ last_net = "none"
    /\ SearchStart
    /\ PagIdle
    /\ CoordIdle
    /\ DlIdle
    /\ ListStart("it")
    /\ detail_urls = <<>>
    /\ di = 1
    /\ project_folder = <<>>
    /\ projects = <<>>
    /\ dirs = makedirs(<<DOWNLOAD_FOLDER>>)
    /\ resolved = <<>>
    /\ procedura_links = <<>>
    /\ d_scanned = 0
    /\ procedure_urls \in {<<u>> : u \in DocProcUrls}
    /\ pj = 1
    /\ doc_page = 1
    /\ doc_links = <<>>
    /\ doc_total = 0
    /\ doc_rows = 0
    /\ doc_reqs = <<>>
    /\ doc_labelled = FALSE
    /\ doc_story = 0
    /\ doc_fail = "none"
    /\ doc_row = NoRow
    /\ dk = 1

DocsNext == DocFetch \/ DocRow \/ DocPaginate \/ DocSinglePage

SpecDocs == DocsInit /\ [][DocsNext]_vars

(***************************************************************************)
(* The three copies of get_document_links that follow the pagination, each *)
(* called for one procedure URL against the same registry.  They share     *)
(* the request, the table lookup and the reading of the rows word for      *)
(* word; they differ in how the loop decides to go on.                     *)
(***************************************************************************)
EquivMaxRows == 1     \* data rows on one documents page
EquivMaxTotal == 2    \* largest total a pagination label prints

EquivSite ==
    [DocSite EXCEPT !.max_rows = EquivMaxRows, !.max_total = EquivMaxTotal]

EquivInit ==
    /\ pc = "doc_fetch"
    /\ site = EquivSite
    /\ doc_variant \in Crawlers
    /\ dl_variant = "main"
    /\ server = AnyServer
    /\ csv_rows = <<>>
    /\ net_log = <<>>
    /\ prev_run = NoRun
    /\ keyword = <<"e", "o", "l", "i", "c", "o">>
    /\ search_type = "o"
    /\ typed = keyword
    /\ choice = <<"1">>
    /\ last_net = "none"
    /\ SearchStart
    /\ PagIdle
    /\ CoordIdle
    /\ DlIdle
    /\ ListStart("it")
    /\ detail_urls = <<>>
    /\ di = 1
    /\ project_folder = <<>>
    /\ projects = <<>>
    /\ dirs = makedirs(<<DOWNLOAD_FOLDER>>)
    /\ resolved = <<>>
    /\ procedura_links = <<>>
    /\ d_scanned = 0
    /\ procedure_urls \in {<<u>> : u \in DocProcUrls}
    /\ pj = 1
    /\ doc_page = 1
    /\ doc_links = <<>>
    /\ doc_total = 0
    /\ doc_rows = 0
    /\ doc_reqs = <<>>
    /\ doc_labelled = FALSE
    /\ doc_story = 0
    /\ doc_fail = "none"
    /\ doc_row = NoRow
    /\ dk = 1

EquivNext ==
    \/ DocFetch
    \/ DocRow
    \/ DocPaginate
    \/ DocPaginateInline
    \/ DocPaginateImparis

SpecEquiv == EquivInit /\ [][EquivNext]_vars

(***************************************************************************)
(* The download loop of main for one procedure that lists one document,    *)
(* whose file name is any text of up to MaxNameLen characters or one of    *)
(* two long names.                                                         *)
(***************************************************************************)
MaxNameLen == 3     \* length of the file names tried exhaustively

NameAlphabet == FORBIDDEN \cup {"a", "_", "."}

\* the long name of the sanitization example, with two backslashes after
\* the b, and with one
LongNameTwoBackslashes ==
    <<"a", "/", "b", "\\", "\\", "c", "?", "d", ":", "e", "<", "f", ">", "g", "\"", "h",
      "|", "i">>
LongNameOneBackslash ==
    <<"a", "/", "b", "\\", "c", "?", "d", ":", "e", "<", "f", ">", "g", "\"", "h", "|", "i">>

FileNames ==
    UNION {[1..n -> NameAlphabet] : n \in 0..MaxNameLen}
    \cup {LongNameTwoBackslashes, LongNameOneBackslash}

NamesInit ==
    /\ pc = "main_doc"
    /\ site = PipeSite
    /\ doc_variant = "main"
    /\ dl_variant = "main"
    /\ server = AnyServer
    /\ csv_rows = <<>>
    /\ net_log = <<>>
    /\ prev_run = NoRun
    /\ keyword = <<"e", "o", "l", "i", "c", "o">>
    /\ search_type = "o"
    /\ typed = keyword
    /\ choice = <<"1">>
    /\ last_net = "none"
    /\ SearchStart
    /\ PagIdle
    /\ CoordIdle
    /\ DlIdle
    /\ ListStart("it")
    /\ detail_urls = <<Url(BASE_URL.host, InfoPath("1"))>>
    /\ di = 1
    /\ project_folder = Append(base_save_dir, "1")
    /\ projects = <<>>
    /\ dirs = makedirs(project_folder)
    /\ resolved = <<[url |-> detail_urls[1], id |-> "1"]>>
    /\ procedura_links = <<>>
    /\ d_scanned = 0
    /\ procedure_urls = <<Url(BASE_URL.host, DocPath("1"))>>
    /\ pj = 1
    /\ doc_page = 1
    /\ doc_links \in {<<[url |-> Url(BASE_URL.host, <<"File", "Documento", "1">>),
                          nome_file |-> n]>> : n \in FileNames}
    /\ doc_total = 0
    /\ doc_rows = 0
    /\ doc_reqs = <<>>
    /\ doc_labelled = FALSE
    /\ doc_story = 0
    /\ doc_fail = "none"
    /\ doc_row = NoRow
    /\ dk = 1

NamesNext == MainDoc \/ MainDocSleep

SpecNames == NamesInit /\ [][NamesNext]_vars

(***************************************************************************)
(* The download loop of main for one procedure that lists up to MaxRefs    *)
(* documents, whose file names may clash once sanitized.                   *)
(***************************************************************************)
MaxRefs == 2        \* documents the procedure lists

ClashNames == { <<"a", "/", "b">>, <<"a", "_", "b">>, <<"c">> }
ClashUrls == { Url(BASE_URL.host, <<"File", "Documento", "1">>),
               Url(BASE_URL.host, <<"File", "Documento", "2">>) }
ClashRefs == {[url |-> u, nome_file |-> n] : u \in ClashUrls, n \in ClashNames}
ClashLists == UNION {[1..n -> ClashRefs] : n \in 1..MaxRefs}

ClashInit ==
    /\ pc = "main_doc"
    /\ site = PipeSite
    /\ doc_variant = "main"
    /\ dl_variant = "main"
    /\ server = AnyServer
    /\ csv_rows = <<>>
    /\ net_log = <<>>
    /\ prev_run = NoRun
    /\ keyword = <<"e", "o", "l", "i", "c", "o">>
    /\ search_type = "o"
    /\ typed = keyword
    /\ choice = <<"1">>
    /\ last_net = "none"
    /\ SearchStart
    /\ PagIdle
    /\ CoordIdle
    /\ DlIdle
    /\ ListStart("it")
    /\ detail_urls = <<Url(BASE_URL.host, InfoPath("1"))>>
    /\ di = 1
    /\ project_folder = Append(base_save_dir, "1")
    /\ projects = <<>>
    /\ dirs = makedirs(project_folder)
    /\ resolved = <<[url |-> detail_urls[1], id |-> "1"]>>
    /\ procedura_links = <<>>
    /\ d_scanned = 0
    /\ procedure_urls = <<Url(BASE_URL.host, DocPath("1"))>>
    /\ pj = 1
    /\ doc_page = 1
    /\ doc_links \in ClashLists
    /\ doc_total = 0
    /\ doc_rows = 0
    /\ doc_reqs = <<>>
    /\ doc_labelled = FALSE
    /\ doc_story = 0
    /\ doc_fail = "none"
    /\ doc_row = NoRow
    /\ dk = 1

ClashNext == MainDoc \/ MainDocSleep

SpecClash == ClashInit /\ [][ClashNext]_vars

(***************************************************************************)
(* download_file called again and again, with any document of a small      *)
(* registry and any behaviour of the network.                              *)
(***************************************************************************)
DlUrls == { Url(BASE_URL.host, <<"File", "Documento", "1">>),
            Url(BASE_URL.host, <<"File", "Documento", "2">>) }
DlNames == { <<"a">>, <<"a", "/", "b">>, <<"a", "_", "b">>, <<"a", ":", "b">>, <<>> }
DlDirs == { <<"downloads", "eolico", "Progetti", "1">> }

DlInit ==
    /\ pc = "download"
    /\ DlIdle
    /\ PagIdle
    /\ CoordIdle
    /\ site = SearchSite
    /\ doc_variant = "main"
    /\ dl_variant \in {"main", "imparis2"}
    /\ server = AnyServer
    /\ csv_rows = <<>>
    /\ net_log = <<>>
    /\ prev_run = NoRun
    /\ keyword = <<"e", "o", "l", "i", "c", "o">>
    /\ search_type = "o"
    /\ typed = keyword
    /\ choice = <<"1">>
    /\ last_net = "none"
    /\ SearchStart
    /\ ListStart("it")
    /\ PipeIdle

DlCall ==
    /\ pc = "download"
    /\ \E url \in DlUrls, nome_file \in DlNames, save_path \in DlDirs,
          net \in DownloadOutcomes :
            download_file(url, nome_file, save_path, net)
    /\ UNCHANGED <<pc, pagVars, coordVars, inputVars, prev_run, searchVars, listVars, pipeVars>>

DlNext == DlCall

SpecDownload == DlInit /\ [][DlNext]_vars

(***************************************************************************)
(* The inference applied to one page, as a pagination loop applies it: the *)
(* caller holds its page counter and takes the total from the page.        *)
(***************************************************************************)
PagSoups ==
    UNION { {Soup(TRUE, TRUE, t, FALSE, <<>>) : t \in LabelVariants(x, y)} :
                x \in 0..MaxLabelNum, y \in 0..MaxLabelNum }
    \cup {Soup(TRUE, TRUE, t, FALSE, <<>>) : t \in BadLabels}
    \cup {NoSoup, Soup(TRUE, FALSE, <<>>, FALSE, <<>>)}
    \cup {CountSoup(n) : n \in 0..MaxResultCount}
    \cup {Soup(FALSE, FALSE, <<>>, TRUE, <<"Risultati">>)}

PagInit ==
    /\ pc = "infer"
    /\ pg_soup \in PagSoups
    /\ pg_page \in 1..MaxLoopPage
    /\ pg_total = 1
    /\ pg_count = 1
    /\ CoordIdle
    /\ DlIdle
    /\ site = SearchSite
    /\ doc_variant = "main"
    /\ dl_variant = "main"
    /\ server = AnyServer
    /\ csv_rows = <<>>
    /\ net_log = <<>>
    /\ prev_run = NoRun
    /\ keyword = <<"e", "o", "l", "i", "c", "o">>
    /\ search_type = "o"
    /\ typed = keyword
    /\ choice = <<"1">>
    /\ last_net = "none"
    /\ SearchStart
    /\ ListStart("it")
    /\ PipeIdle

PagInfer ==
    /\ pc = "infer"
    /\ pc' = "inferred"
    /\ pg_total' = find_total_pages(pg_soup)
    /\ pg_count' = find_total_pages_count(pg_soup)
    /\ UNCHANGED <<pg_soup, pg_page, coordVars, dlVars, runVars, last_net, searchVars, listVars, pipeVars>>

PagNext == PagInfer

SpecPagination == PagInit /\ [][PagNext]_vars

(***************************************************************************)
(* parse_coordinates of coordinate_converter.py; wind_turbine_coordinate.py*)
(* carries the same code.  A text is a sequence of characters, DEGREE      *)
(* standing for the degree sign.  A float is the exact fraction n / d, so  *)
(* rounding is left out.                                                   *)
(***************************************************************************)
MaxDegree == 41     \* the larger of the two latitude degrees tried
MaxMinute == 24     \* the larger of the two latitude minutes tried
MaxSecond == 12     \* the latitude seconds tried

DEGREE == "deg"
QUOTE == "'"
DQUOTE == "\""

LowerLetters == {"n", "s", "e", "w", "a", "b", "c", "x"}
UpperLetters == {"N", "S", "E", "W", "A", "B", "C", "X"}

\* the characters the regular expressions take for word characters (\w)
WordChars == Digits \cup LowerLetters \cup UpperLetters \cup {"_"}

upper_char(c) ==
    CASE c = "n" -> "N" [] c = "s" -> "S" [] c = "e" -> "E" [] c = "w" -> "W"
      [] c = "a" -> "A" [] c = "b" -> "B" [] c = "c" -> "C" [] c = "x" -> "X"
      [] OTHER -> c

\* str.upper
upper_text(s) == [i \in 1..Len(s) |-> upper_char(s[i])]

\* ---- regular expressions: a pattern is \b, a list of items, \b; an item
\* ---- is a character class repeated lo..hi times, greedily
One(S) == [set |-> S, lo |-> 1, hi |-> 1]
Opt(S) == [set |-> S, lo |-> 0, hi |-> 1]
Star(S) == [set |-> S, lo |-> 0, hi |-> 1000]
Plus(S) == [set |-> S, lo |-> 1, hi |-> 1000]
UpTo(S, n) == [set |-> S, lo |-> 1, hi |-> n]
Skip(S) == [set |-> S, lo |-> 0, hi |-> 0]

Signs == {"-", "+"}
\* [NS] and [EW] under re.IGNORECASE
NorthSouth == {"N", "S", "n", "s"}
EastWest == {"E", "W", "e", "w"}

\* \b at position i: between character i - 1 and character i
IsWord(s, i) == i \in 1..Len(s) /\ s[i] \in WordChars
WordBoundary(s, i) == IsWord(s, i - 1) # IsWord(s, i)

\* the longest run of characters of S from position pos on, hi at most
Longest(s, pos, S, hi) ==
    CHOOSE n \in 0..Len(s) :
        /\ n <= hi
        /\ pos + n - 1 <= Len(s)
        /\ \A j \in 0..(n - 1) : s[pos + j] \in S
        /\ \/ n = hi
           \/ pos + n > Len(s)
           \/ s[pos + n] \notin S

NoMatchAt == <<-1>>

\* the backtracking match of items k.. from position pos on: the position
\* after each item, or NoMatchAt
RECURSIVE MatchItems(_, _, _, _)
RECURSIVE MatchCount(_, _, _, _, _)
MatchItems(items, s, k, pos) ==
    IF k > Len(items)
    THEN IF WordBoundary(s, pos) THEN <<>> ELSE NoMatchAt
    ELSE MatchCount(items, s, k, pos, Longest(s, pos, items[k].set, items[k].hi))

MatchCount(items, s, k, pos, n) ==
    IF n < items[k].lo THEN NoMatchAt
    ELSE LET rest == MatchItems(items, s, k + 1, pos + n)
         IN  IF rest # NoMatchAt THEN <<pos + n>> \o rest
             ELSE MatchCount(items, s, k, pos, n - 1)

NoMatch == [found |-> FALSE]

\* pattern.search(s): the match at the leftmost position that has one
re_search(items, s) ==
    LET starts == {i \in 1..(Len(s) + 1) :
                       WordBoundary(s, i) /\ MatchItems(items, s, 1, i) # NoMatchAt}
    IN  IF starts = {} THEN NoMatch
        ELSE LET i == CHOOSE a \in starts : \A b \in starts : a <= b
             IN  [found |-> TRUE, start |-> i, ends |-> MatchItems(items, s, 1, i)]

\* the text matched by items a..b of a match
group(m, s, a, b) ==
    SubSeq(s, IF a = 1 THEN m.start ELSE m.ends[a - 1], m.ends[b] - 1)

\* [-+]?\d*\.?\d+ is items 1..4 (lat) and 11..14 (lon), the directions are
\* items 7 and 17
dd_pattern ==
    << Opt(Signs), Star(Digits), Opt({"."}), Plus(Digits), Opt({DEGREE}),
       Star(Blanks), Opt(NorthSouth), Star(Blanks), Opt({","}), Star(Blanks),
       Opt(Signs), Star(Digits), Opt({"."}), Plus(Digits), Opt({DEGREE}),
       Star(Blanks), Opt(EastWest) >>

\* the optional group (?:\.\d+)? taken or left out
Fraction(taken) ==
    IF taken THEN <<One({"."}), Plus(Digits)>> ELSE <<Skip({"."}), Skip(Digits)>>

\* dms_pattern with each of its two optional groups taken or left out.
\* Items: 1 lat_deg, 4 lat_min, 7..9 lat_sec, 12 lat_dir, 14 lon_deg,
\* 17 lon_min, 20..22 lon_sec, 25 lon_dir
dms_pattern(lat_frac, lon_frac) ==
    << UpTo(Digits, 3), One({DEGREE}), Star(Blanks),
       UpTo(Digits, 2), One({QUOTE}), Star(Blanks),
       UpTo(Digits, 2) >> \o Fraction(lat_frac) \o
    << Opt({DQUOTE}), Star(Blanks), One(NorthSouth), Star(Blanks),
       UpTo(Digits, 3), One({DEGREE}), Star(Blanks),
       UpTo(Digits, 2), One({QUOTE}), Star(Blanks),
       UpTo(Digits, 2) >> \o Fraction(lon_frac) \o
    << Opt({DQUOTE}), Star(Blanks), One(EastWest) >>

\* dms_pattern.search(s).  Every digit run of the pattern is followed by a
\* character it requires, so a position has one match at most and the order
\* in which the optional groups are tried does not matter.
dms_search(s) ==
    LET tries == << re_search(dms_pattern(TRUE, TRUE), s),
                    re_search(dms_pattern(TRUE, FALSE), s),
                    re_search(dms_pattern(FALSE, TRUE), s),
                    re_search(dms_pattern(FALSE, FALSE), s) >>
        hits == {k \in 1..4 : tries[k].found}
    IN  IF hits = {} THEN NoMatch
        ELSE tries[CHOOSE k \in hits :
                       \A h \in hits : \/ tries[k].start < tries[h].start
                                       \/ tries[k].start = tries[h].start /\ k <= h]

RECURSIVE Pow10(_)
Pow10(k) == IF k = 0 THEN 1 ELSE 10 * Pow10(k - 1)

\* float(s) for s of the form [-+]?\d*\.?\d+
float(s) ==
    LET body == IF s[1] \in Signs THEN Tail(s) ELSE s
        dots == {i \in 1..Len(body) : body[i] = "."}
        whole == IF dots = {} THEN body
                 ELSE LET dot == CHOOSE i \in dots : TRUE
                      IN  SubSeq(body, 1, dot - 1) \o SubSeq(body, dot + 1, Len(body))
        scale == IF dots = {} THEN 0
                 ELSE Len(body) - (CHOOSE i \in dots : TRUE)
    IN  [n |-> IF s[1] = "-" THEN 0 - int(whole) ELSE int(whole), d |-> Pow10(scale)]

Negated(x) == [n |-> 0 - x.n, d |-> x.d]

Same(x, y) == x.n * y.d = y.n * x.d

\* deg + min / 60 + sec / 3600
DmsDegrees(deg, min, sec) ==
    [n |-> (deg.n * 3600 + min.n * 60) * sec.d + sec.n, d |-> 3600 * sec.d]

Pair(lat, lon) == [kind |-> "tuple", lat |-> lat, lon |-> lon]

parse_coordinates(text) ==
    LET t == upper_text(strip(text))
        dd_match == re_search(dd_pattern, t)
        dms_match == dms_search(t)
    IN  IF dd_match.found
        THEN LET lat == float(group(dd_match, t, 1, 4))
                 lon == float(group(dd_match, t, 11, 14))
             IN  Pair(IF group(dd_match, t, 7, 7) = <<"S">> THEN Negated(lat) ELSE lat,
                      IF group(dd_match, t, 17, 17) = <<"W">> THEN Negated(lon) ELSE lon)
        ELSE IF dms_match.found
        THEN LET lat == DmsDegrees(float(group(dms_match, t, 1, 1)),
                                   float(group(dms_match, t, 4, 4)),
                                   float(group(dms_match, t, 7, 9)))
                 lon == DmsDegrees(float(group(dms_match, t, 14, 14)),
                                   float(group(dms_match, t, 17, 17)),
                                   float(group(dms_match, t, 20, 22)))
             IN  Pair(IF group(dms_match, t, 12, 12) = <<"S">> THEN Negated(lat) ELSE lat,
                      IF group(dms_match, t, 25, 25) = <<"W">> THEN Negated(lon) ELSE lon)
        ELSE PyNone

\* ---- the texts tried
lower_char(c) ==
    CASE c = "N" -> "n" [] c = "S" -> "s" [] c = "E" -> "e" [] c = "W" -> "w"
      [] OTHER -> c

DmsParams ==
    [lat_deg : {4, MaxDegree}, lat_min : {2, MaxMinute}, lat_sec : {MaxSecond},
     lat_dir : {"N", "S"},
     lon_deg : {2}, lon_min : {10}, lon_sec : {26}, lon_dir : {"E", "W"}]

\* "plain" is the form 41°24'12"N 2°10'26"E, "tenths" the form
\* 41°24'12.2"N 2°10'26.5"E of the comment above dms_pattern, "spaced" has
\* a blank after every mark and no double quote, "lower" is "plain" with
\* the directions in lower case
DmsStyles == {"plain", "tenths", "spaced", "lower"}

DmsAxis(deg, min, sec, tenth, dir, style) ==
    LET gap == IF style = "spaced" THEN <<" ">> ELSE <<>>
    IN  str(deg) \o <<DEGREE>> \o gap \o str(min) \o <<QUOTE>> \o gap \o str(sec)
        \o (IF style = "tenths" THEN <<".", DigitChar(tenth)>> ELSE <<>>)
        \o (IF style = "spaced" THEN <<" ">> ELSE <<DQUOTE>>)
        \o <<IF style = "lower" THEN lower_char(dir) ELSE dir>>

DmsText(p, style) ==
    DmsAxis(p.lat_deg, p.lat_min, p.lat_sec, 2, p.lat_dir, style) \o <<" ">>
    \o DmsAxis(p.lon_deg, p.lon_min, p.lon_sec, 5, p.lon_dir, style)

DdNumbers == {<<"4", "1", ".", "4", "0", "3">>, <<"4", "1">>}

DdParams ==
    [lat : DdNumbers, lon : {<<"2", ".", "1", "7">>},
     lat_dir : {"", "N", "S"}, lon_dir : {"", "E", "W"},
     marked : BOOLEAN, comma : BOOLEAN]

\* the forms 41.40338, 2.17403 and 41.40338°N, 2.17403°E of the comment
\* above dd_pattern, with and without the comma, marks and directions
DdAxis(number, dir, marked) ==
    number \o (IF marked THEN <<DEGREE>> ELSE <<>>)
           \o (IF dir = "" THEN <<>> ELSE <<dir>>)

DdText(p) ==
    DdAxis(p.lat, p.lat_dir, p.marked)
    \o (IF p.comma THEN <<",", " ">> ELSE <<" ">>)
    \o DdAxis(p.lon, p.lon_dir, p.marked)

\* texts that are neither: no number, one number, a number and a word
OtherTexts == { <<"x">>, <<"7">>, <<"4", "1", " ", "a", "b", "c">>,
                <<" ", "4", "1", ".", "4", ",", "2", ".", "1", " ">> }

CoordTexts ==
    {DmsText(p, style) : p \in DmsParams, style \in DmsStyles}
    \cup {DdText(p) : p \in DdParams} \cup OtherTexts

CoordInit ==
    /\ pc = "coord_call"
    /\ co_text \in CoordTexts
    /\ co_ret = PyNone
    /\ PagIdle
    /\ DlIdle
    /\ site = SearchSite
    /\ doc_variant = "main"
    /\ dl_variant = "main"
    /\ server = AnyServer
    /\ csv_rows = <<>>
    /\ net_log = <<>>
    /\ prev_run = NoRun
    /\ keyword = <<"e", "o", "l", "i", "c", "o">>
    /\ search_type = "o"
    /\ typed = keyword
    /\ choice = <<"1">>
    /\ last_net = "none"
    /\ SearchStart
    /\ ListStart("it")
    /\ PipeIdle

\* one call parse_coordinates(co_text)
ParseCoordinates ==
    /\ pc = "coord_call"
    /\ pc' = "coord_done"
    /\ co_ret' = parse_coordinates(co_text)
    /\ UNCHANGED <<co_text, pagVars, dlVars, runVars, last_net, searchVars, listVars, pipeVars>>

CoordNext == ParseCoordinates

SpecCoords == CoordInit /\ [][CoordNext]_vars

(***************************************************************************)
(* Properties.                                                             *)
(***************************************************************************)
SameInputs(a, b) ==
    /\ a.url = b.url
    /\ a.nome_file = b.nome_file
    /\ a.save_path = b.save_path

Fetches(c) == IF c.fetched THEN 1 ELSE 0

\* a download_file call is made in this step, with the inputs of the call
\* before it
SecondCallSameInputs ==
    /\ dl_last.made
    /\ dl_tick' # dl_tick
    /\ SameInputs(dl_last, dl_last')

\* C1 as stated: two download_file calls in a row with the same url, file
\* name and directory make exactly one network fetch between them, whatever
\* the first call's outcome.
C1_ExactlyOneFetchAlways ==
    [][SecondCallSameInputs => Fetches(dl_last) + Fetches(dl_last') = 1]_vars

\* C1 amended: of two download_file calls in a row with the same inputs, the
\* second never fetches once the destination exists; there is exactly one
\* fetch when the destination was absent and the first call created it
\* (saved, or failed after opening the file), two fetches when the first
\* call failed before creating the file, and none when the destination
\* already existed before the first call.
C1_OneFetchIffFirstCallCreatesFile ==
    [][SecondCallSameInputs =>
        /\ dl_last.existed => (~dl_last.fetched /\ ~dl_last'.fetched)
        /\ (~dl_last.existed /\ dl_last.result \in {"ok", "stream_error"})
              => (dl_last.fetched /\ ~dl_last'.fetched)
        /\ (~dl_last.existed /\ dl_last.result \in {"transport_error", "open_error"})
              => (dl_last.fetched /\ dl_last'.fetched)]_vars

\* the second of two calls with the same inputs found the file the first
\* one saved
C1_Witness ==
    /\ dl_last.made
    /\ dl_last.existed
    /\ ~dl_last.fetched
    /\ dl_last.nome_file = <<"a", "/", "b">>
    /\ path_join(dl_last.save_path, sanitize(dl_last.nome_file)) \in DOMAIN files
    /\ files[path_join(dl_last.save_path, sanitize(dl_last.nome_file))]
          = [src |-> dl_last.url, state |-> "complete"]

\* C2: a download_file call whose destination already exists makes no
\* request and leaves the disk as it is, and no step of a run rewrites,
\* truncates or removes a file that exists: files are only added.
C2_ExistingFilesUntouched ==
    [][ /\ \A p \in DOMAIN files : p \in DOMAIN files' /\ files'[p] = files[p]
        /\ (dl_tick' # dl_tick /\ dl_last'.existed)
              => (~dl_last'.fetched /\ files' = files) ]_vars

C2_Witness ==
    /\ dl_last.made
    /\ dl_last.existed
    /\ ~dl_last.fetched
    /\ path_join(dl_last.save_path, sanitize(dl_last.nome_file)) \in DOMAIN files
    /\ files[path_join(dl_last.save_path, sanitize(dl_last.nome_file))].src # dl_last.url

AllAbsolute(seq) == \A i \in 1..Len(seq) : IsAbsolute(seq[i])

\* C3: at every point of the search crawl and of a detail-page link
\* extraction the accumulated list holds no URL twice and only absolute
\* URLs, whatever hrefs the pages carry and however often a link recurs.
C3_LinkListsAreSets ==
    /\ NoDup(all_links) /\ AllAbsolute(all_links)
    /\ NoDup(procedura_links) /\ AllAbsolute(procedura_links)
    /\ NoDup(detail_urls) /\ AllAbsolute(detail_urls)
    /\ NoDup(procedure_urls) /\ AllAbsolute(procedure_urls)

\* two anchors of a detail page read, one link kept: the one a relative
\* href resolved to
C3_Witness ==
    /\ pc = "detail_scan"
    /\ d_scanned = 2
    /\ Len(detail_urls) = 2
    /\ procedura_links = <<Url(BASE_URL.host, <<"x">> \o DocPath("2"))>>

ProjectUrls == [i \in 1..Len(all_projects) |-> all_projects[i].url]

\* C4: the project-listing crawl returns no project URL in more than one
\* record, even when the server lists a project twice.
C4_NoProjectUrlTwice == NoDup(ProjectUrls)

PagesInOrder(n) ==
    /\ Len(reqs) = n
    /\ \A i \in 1..Len(reqs) :
          reqs[i].pagina = i /\ reqs[i].Testo = keyword /\ reqs[i].t = search_type

\* C5: when the fetch of search page k fails, the crawl ends normally having
\* requested pages 1..k once each and nothing after, and returns the links
\* accumulated from pages 1..k-1.
C5_FetchFailureStopsCrawl ==
    failed_at >= 1 =>
        /\ pc = "search_done"
        /\ PagesInOrder(failed_at)
        /\ all_links = acc_prev
        /\ NoDup(all_links)
        /\ ToSet(all_links) = seen

C5_Witness ==
    /\ pc = "search_done"
    /\ failed_at = 2
    /\ total_pages = 3
    /\ Len(all_links) = 2

\* C6: when every page i prints "Pagina i di T" and no fetch fails, the
\* crawl requests pages 1..T once each in increasing order and returns the
\* deduplicated union of the matching links of all T pages.
C6_UniformLabelsWalkAllPages ==
    (pc = "search_done" /\ failed_at = 0 /\ story >= 1) =>
        /\ PagesInOrder(story)
        /\ NoDup(all_links)
        /\ ToSet(all_links) = seen

\* three pages with two new links each yield six URLs
C6_Witness ==
    /\ pc = "search_done"
    /\ failed_at = 0
    /\ story = 3
    /\ PagesInOrder(3)
    /\ Len(all_links) = 6

\* C7: the detail URLs handed to project-id extraction and detail-page
\* resolution are, in order, those the search crawl returned: each once,
\* none else, all of them when the run is done.
C7_EachDetailUrlResolvedOnce ==
    /\ Len(resolved) <= Len(detail_urls)
    /\ \A i \in 1..Len(resolved) : resolved[i].url = detail_urls[i]
    /\ \A i, j \in 1..Len(resolved) : resolved[i].url = resolved[j].url => i = j
    /\ pc = "done" => Len(resolved) = Len(detail_urls)

C7_Witness ==
    /\ pc = "done"
    /\ Len(detail_urls) = 2
    /\ Len(resolved) = 2
    /\ resolved[1].id # resolved[2].id

\* C8: between any two outbound requests of a run there is at least one
\* rate-limiter delay.
C8_DelayBeforeEveryRequest == last_net # "unthrottled_request"

ReadsLabel(soup, x, y) == soup.ul /\ soup.li /\ soup.text \in LabelVariants(x, y)

CeilDiv(n, d) == CHOOSE k \in 0..n : k * d >= n /\ (k = 0 \/ (k - 1) * d < n)

\* C10: for a page carrying the count "(N)" the count-format inference
\* returns ceil(N / 10).
C10_CountGivesCeil ==
    \A n \in 0..MaxResultCount :
        (pc = "inferred" /\ pg_soup = CountSoup(n)) => pg_count = CeilDiv(n, 10)

C10_Witness ==
    /\ pc = "inferred"
    /\ pg_soup = CountSoup(25)
    /\ pg_count = 3

\* C11: the inference a crawl uses handles both formats: for a page with
\* only the label "Pagina X di Y" it returns Y, and for a page with only the
\* count "(N)" it returns ceil(N / 10).  pg_total is what the inference of
\* main.py returns, pg_count what the one of eng/list_projects.py returns.
C11_BothFormatsSupported ==
    pc = "inferred" =>
        \A r \in {pg_total, pg_count} :
            /\ \A x, y \in 1..MaxLabelNum : pg_soup = LabelSoup(x, y) => r = y
            /\ \A n \in 0..MaxResultCount : pg_soup = CountSoup(n) => r = CeilDiv(n, 10)

\* C12: a page without a pagination label that parses gives total 1; the
\* loop that fetched it requests no further page and keeps what it has
\* extracted, in the search crawl and in the documents crawl alike.
C12_NoSignalStopsLoop ==
    /\ [](/\ (pc = "search_fetch" /\ page > 1) => labelled
          /\ (pc = "search_done" /\ failed_at = 0 /\ ~labelled) =>
                (total_pages = 1 /\ Len(reqs) = page /\ seen \subseteq ToSet(all_links))
          /\ (pc = "doc_fetch" /\ doc_page > 1) => doc_labelled
          /\ (pc = "doc_done" /\ doc_fail = "none" /\ ~doc_labelled) =>
                (doc_total = 1 /\ Len(doc_reqs) = doc_page))
    /\ [][(pc = "search_scan" /\ pc' = "search_done") => all_links' = all_links]_vars
    /\ [][(pc = "doc_rows" /\ pc' = "doc_done") => doc_links' = doc_links]_vars

\* the second documents page carries no label: the crawl ends there with
\* the documents of both pages
C12_Witness ==
    /\ pc = "doc_done"
    /\ doc_fail = "none"
    /\ ~doc_labelled
    /\ doc_page = 2
    /\ doc_total = 1
    /\ Len(doc_links) = 2

\* C13: once the total has been inferred for the page just fetched, the
\* pagination state satisfies current >= 1, total >= 1 and current <= total.
\* A crawl that ended without a failed fetch has just inferred the total of
\* page `page`.
C13_PaginationStateInRange ==
    (pc = "search_done" /\ failed_at = 0) =>
        (page >= 1 /\ total_pages >= 1 /\ page <= total_pages)

\* C14: the crawl goes on to page p + 1 only if page p, the page fetched
\* last, states a total greater than p, whatever earlier pages stated.
C14_LatestTotalTrusted ==
    (pc = "list_fetch" /\ lp_page > 1) => lp_stated > lp_page - 1

\* page 1 is the procedure URL itself; page n > 1 has "pagina=n" appended,
\* after "&" when the URL has a query and after "?" when it has none
PageOfProcedure(u, n) ==
    IF n = 1 THEN u
    ELSE [u EXCEPT !.query = Append(u.query,
              [sep |-> IF u.query = <<>> THEN "?" ELSE "&",
               name |-> "pagina", value |-> n])]

\* C15: the crawl requests the documents pages once each and in order,
\* page 1 at the procedure URL and page n > 1 at that URL with pagina=n
\* appended; a crawl that ends without a failure on a page printing the
\* total T has requested every page 1..T, and page n + 1 is requested only
\* after page n printed a total above n.  So when every page is served and
\* prints T, exactly the pages 1..T are requested.
C15_DocCrawlWalksAllPages ==
    /\ [](\A i \in 1..Len(doc_reqs) :
            doc_reqs[i] = PageOfProcedure(procedure_urls[pj], i))
    /\ []((pc = "doc_done" /\ doc_fail = "none" /\ doc_story > 0) =>
            Len(doc_reqs) >= doc_story)
    /\ [][(pc = "doc_rows" /\ pc' = "doc_fetch") => doc_story' > doc_page]_vars

\* C16 as stated: when a fetched documents page lacks the table, on
\* whichever page, the crawl ends at once and its result is empty.
C16_NoTableGivesEmptyResult ==
    (pc = "doc_done" /\ doc_fail = "table") =>
        (Len(doc_reqs) = doc_page /\ doc_links = <<>>)

\* C16 amended: when a fetched documents page lacks the table the crawl
\* ends at once, with no further request, and its result is what the
\* earlier pages gave: nothing when the page is the first.
C16_NoTableEndsCrawl ==
    /\ []((pc = "doc_done" /\ doc_fail = "table") =>
            (Len(doc_reqs) = doc_page /\ (doc_page = 1 => doc_links = <<>>)))
    /\ [][(pc = "doc_fetch" /\ doc_fail' = "table") =>
            (pc' = "doc_done" /\ doc_links' = doc_links)]_vars

\* the table is missing from page 2, after page 1 gave documents
C16_Witness ==
    /\ pc = "doc_done"
    /\ doc_fail = "table"
    /\ doc_page = 2
    /\ Len(doc_reqs) = 2
    /\ Len(doc_links) = 2

\* C17: reading a data row adds exactly one DocumentRef, at the end of the
\* list, when the row has at least 9 columns and its 9th column holds the
\* titled download anchor, and adds nothing otherwise.
C17_OneRefPerValidRow ==
    [][(pc = "doc_rows" /\ doc_rows' = doc_rows + 1) =>
        doc_links' = IF doc_row'.cols >= 9 /\ doc_row'.download # NoHref
                     THEN Append(doc_links,
                             [url |-> urljoin(BASE_URL, doc_row'.download),
                              nome_file |-> doc_row'.nome_file])
                     ELSE doc_links]_vars

\* three data rows read on page 1, the third without the anchor: two refs
C17_Witness ==
    /\ pc = "doc_rows"
    /\ doc_page = 1
    /\ doc_rows = 3
    /\ doc_row = DocRowOf(9, <<"d">>, NoHref)
    /\ Len(doc_links) = 2
    /\ doc_links[1].nome_file = <<"a">>
    /\ doc_links[2].nome_file = <<"b">>

\* the characters a file name must not keep
Unwanted == {"\\", "/", "*", "?", ":", "\"", "<", ">", "|"}

\* the names of the files on disk
SavedNames == {p.name : p \in DOMAIN files}

\* C18: the name a document is saved under has the length of the name the
\* registry gave, "_" wherever that name has one of the nine unwanted
\* characters and the same character everywhere else; it holds no unwanted
\* character, and sanitizing it again changes nothing.
C18_SanitizeCharByChar ==
    \A s \in SavedNames :
        LET n == doc_links[1].nome_file
        IN  /\ Len(s) = Len(n)
            /\ \A i \in 1..Len(n) : s[i] = IF n[i] \in Unwanted THEN "_" ELSE n[i]
            /\ \A i \in 1..Len(s) : s[i] \notin Unwanted
            /\ sanitize(s) = s

\* a name of three unwanted characters was saved as three underscores
C18_Witness ==
    /\ doc_links[1].nome_file = <<"\\", "|", "\"">>
    /\ SavedNames = {<<"_", "_", "_">>}
    /\ dl_last = Call(doc_links[1].url, doc_links[1].nome_file, project_folder,
                      FALSE, TRUE, "ok")

SanitizedExample ==
    <<"a", "_", "b", "_", "c", "_", "d", "_", "e", "_", "f", "_", "g", "_", "h", "_", "i">>

\* C19 as stated: the example name, written with two backslashes, is
\* saved as a_b_c_d_e_f_g_h_i.
C19_ExampleAsWritten ==
    doc_links[1].nome_file = LongNameTwoBackslashes =>
        \A s \in SavedNames : s = SanitizedExample

\* C19 amended: with one backslash the example name is saved as
\* a_b_c_d_e_f_g_h_i; with the two backslashes as written it is saved with
\* two underscores between b and c.
C19_ExampleCharByChar ==
    /\ doc_links[1].nome_file = LongNameOneBackslash =>
            \A s \in SavedNames : s = SanitizedExample
    /\ doc_links[1].nome_file = LongNameTwoBackslashes =>
            \A s \in SavedNames :
                s = <<"a", "_", "b", "_", "_", "c", "_", "d", "_", "e", "_", "f", "_", "g",
                      "_", "h", "_", "i">>

C19_Witness ==
    /\ doc_links[1].nome_file = LongNameTwoBackslashes
    /\ \E s \in SavedNames : Len(s) = 18 /\ s[4] = "_" /\ s[5] = "_"
    /\ dl_last.made /\ dl_last.result = "ok"

\* C20: every document a procedure lists is handed to download_file, and
\* whatever that call meets the loop goes on to the next document, then to
\* the next procedure and the next detail URL; the run ends only when the
\* detail URLs are exhausted.
C20_FailedDownloadDoesNotAbort ==
    /\ [][(pc = "main_doc" /\ dk <= Len(doc_links)) =>
            (pc' = "main_doc_sleep" /\ dl_tick' # dl_tick)]_vars
    /\ [][pc = "main_doc_sleep" =>
            (pc' = "main_doc" /\ dk' = dk + 1 /\ UNCHANGED <<doc_links, pj, di>>)]_vars
    /\ [][(pc = "main_doc" /\ dk > Len(doc_links)) =>
            (pc' = "main_proc" /\ pj' = pj + 1 /\ di' = di)]_vars
    /\ [](pc = "done" => di > Len(detail_urls))

\* the second document of a procedure is fetched and saved after the
\* download of the first, which has the same destination, left no file
C20_Witness ==
    /\ pc = "main_doc_sleep"
    /\ Len(doc_links) = 2
    /\ dk = 2
    /\ dl_last.made /\ dl_last.fetched /\ dl_last.result = "ok"
    /\ doc_links[1] = doc_links[2]

\* the destination path of a download_file call
LocalPathOf(c) == path_join(c.save_path, sanitize(c.nome_file))

\* C21: a download that fails after the destination file was opened leaves
\* the partly written file on disk, and every later download_file call for
\* that destination path finds it, makes no fetch and leaves it as it is:
\* the file is never completed.
C21_PartialFileNeverCompleted ==
    /\ [][(dl_tick' # dl_tick /\ dl_last'.fetched /\ dl_last'.result = "stream_error")
            => /\ LocalPathOf(dl_last') \in DOMAIN files'
               /\ files'[LocalPathOf(dl_last')].state = "partial"]_vars
    /\ [][\A p \in DOMAIN files : files[p].state = "partial" =>
            /\ p \in DOMAIN files' /\ files'[p] = files[p]
            /\ (dl_tick' # dl_tick /\ LocalPathOf(dl_last') = p)
                  => (~dl_last'.fetched /\ dl_last'.result = "skipped")]_vars

\* a call has just found the partial file an earlier call left and skipped
C21_Witness ==
    /\ dl_last.made
    /\ dl_last.existed
    /\ ~dl_last.fetched
    /\ LocalPathOf(dl_last) \in DOMAIN files
    /\ files[LocalPathOf(dl_last)].state = "partial"

\* C22: what download_file returns tells its caller how the call went: the
\* destination path when the file was saved or already existed, and
\* something else when the fetch or the write failed.
C22_ResultTellsOutcome ==
    dl_last.made =>
        IF dl_last.result \in {"ok", "skipped"}
        THEN dl_ret = RetPath(LocalPathOf(dl_last))
        ELSE dl_ret # RetPath(LocalPathOf(dl_last))

\* C24: when the keyword typed is empty (nothing but blanks), the run is
\* turned away at its entry point: it never leaves it except to stop, no
\* network request is made and no folder besides the download root exists.
C24_EmptyKeywordRejected ==
    strip(typed) = <<>> =>
        /\ pc \in {"main_entry", "list_entry", "rejected"}
        /\ last_net = "none"
        /\ dirs = makedirs(<<DOWNLOAD_FOLDER>>)

\* C23: a run of main that was given a keyword and one of the two search
\* types reaches its completion point, whichever requests fail and whichever
\* pages lack their anchors, table or pagination label (the totals a page
\* may print are bounded by the registry's largest total).
C23_RunCompletes ==
    [](pc = "search_fetch" => <>(pc = "done"))

\* a run over two detail URLs has completed although its last download met
\* a transport failure
C23_Witness ==
    /\ pc = "done"
    /\ Len(resolved) = 2
    /\ dl_last.made
    /\ dl_last.result = "transport_error"

IsListing(e) == e.kind = "listing"
IsDownload(e) == e.kind = "download"
AllSaved(log) == \A i \in 1..Len(log) : IsDownload(log[i]) => log[i].result = "ok"

\* C25: when main is started again with the same inputs against a registry
\* that answers as before, after a run whose downloads all succeeded, the
\* second run makes the listing requests of the first, in the same order
\* from search page 1 on, makes no download request, and the files on disk
\* at its end are those the first run left.
C25_RestartRelistsAndSkips ==
    (pc = "done" /\ prev_run.made /\ AllSaved(prev_run.log)) =>
        /\ SelectSeq(net_log, IsListing) = SelectSeq(prev_run.log, IsListing)
        /\ SelectSeq(net_log, IsDownload) = <<>>
        /\ files = prev_run.files

\* a second run has ended after a first one that saved two files from two
\* procedure pages
C25_Witness ==
    /\ pc = "done"
    /\ prev_run.made
    /\ AllSaved(prev_run.log)
    /\ Len(SelectSeq(prev_run.log, IsDownload)) >= 2
    /\ Len(SelectSeq(net_log, IsListing)) >= 4

\* the characters of a path segment
Chars(seg) ==
    CASE seg = "7" -> <<"7">>
      [] seg = "12" -> <<"1", "2">>
      [] seg = "12bis" -> <<"1", "2", "b", "i", "s">>
      [] seg = "x" -> <<"x">>
      [] seg = "Info" -> <<"I", "n", "f", "o">>
      [] seg = "it-IT" -> <<"i", "t", "-", "I", "T">>
      [] seg = "Documentazione" ->
            <<"D", "o", "c", "u", "m", "e", "n", "t", "a", "z", "i", "o", "n", "e">>
      [] seg = "UnknownProject" ->
            <<"U", "n", "k", "n", "o", "w", "n", "P", "r", "o", "j", "e", "c", "t">>

\* the digits a text starts with
DigitPrefix(text) == SubSeq(text, 1, RunEnd(text, 1, Digits))

\* the positions of the path where the marker segment "Info" is followed
\* by a segment that starts with a digit
MarkerPositions(u) ==
    {i \in 1..(Len(u.path) - 1) :
        u.path[i] = "Info" /\ DigitPrefix(Chars(u.path[i + 1])) # <<>>}

\* C26: the project id main takes from a detail URL is the run of digits
\* that follows the first "/Info/" marker followed by a digit, and the
\* sentinel "UnknownProject" when the URL has no such marker; the
\* extraction yields one of the two for every URL.
C26_ProjectIdOrSentinel ==
    \A k \in 1..Len(resolved) :
        LET u == resolved[k].url
            id == resolved[k].id
        IN  IF MarkerPositions(u) = {}
            THEN id = "UnknownProject"
            ELSE \E i \in MarkerPositions(u) :
                    /\ \A j \in MarkerPositions(u) : i <= j
                    /\ Chars(id) = DigitPrefix(Chars(u.path[i + 1]))
                    /\ Chars(id) # <<>>

\* the id was taken from a segment that goes on after its digits, behind a
\* marker that is not the first segment
C26_Witness ==
    /\ Len(resolved) = 1
    /\ resolved[1].url.path = <<"it-IT", "Info", "12bis">>
    /\ resolved[1].id = "12"

\* the URL of a search page, without its query
SearchPageUrl == Url(BASE_URL.host, <<"it-IT", "Ricerca", "ViaLibera">>)

\* C27: every link added to a link list is the href of a matching anchor of
\* the page being read, resolved against the URL of that page: a search
\* page for a detail link, the detail page for a procedure link.
C27_ResolvedAgainstPageUrl ==
    /\ [][(pc = "search_scan" /\ all_links' # all_links) =>
            \E href \in site.search_hrefs :
                /\ HrefContains(href, link_pattern(search_type))
                /\ all_links' = Append(all_links, urljoin(SearchPageUrl, href))]_vars
    /\ [][(pc = "detail_scan" /\ pc' = "detail_scan"
                /\ procedura_links' # procedura_links) =>
            \E href \in site.detail_hrefs :
                /\ HrefContains(href, DOC_PATTERN)
                /\ procedura_links' =
                      Append(procedura_links, urljoin(detail_urls[di], href))]_vars

\* a path names a file directly inside the folder `dir`
DirectChildOf(p, dir) ==
    /\ p.dir = dir
    /\ p.name \notin {<<>>, <<".">>, <<".", ".">>}
    /\ \A i \in 1..Len(p.name) : p.name[i] \notin {"/", "\\"}

\* C28: whatever file name the registry supplies, a download_file call
\* creates at most one file, directly inside the destination folder and
\* named by the sanitized file name; it changes no file that exists and
\* creates no folder.
C28_WritesOnlyInsideDestination ==
    [][dl_tick' # dl_tick =>
        /\ dirs' = dirs
        /\ \A p \in DOMAIN files : p \in DOMAIN files' /\ files'[p] = files[p]
        /\ \A p \in DOMAIN files' \ DOMAIN files :
              /\ DOMAIN files' = DOMAIN files \cup {p}
              /\ DirectChildOf(p, dl_last'.save_path)
              /\ p.name = [i \in 1..Len(dl_last'.nome_file) |->
                              IF dl_last'.nome_file[i] \in Unwanted
                              THEN "_" ELSE dl_last'.nome_file[i]]]_vars

\* the name "../" was saved as the file ".._" in the project folder
C28_Witness ==
    /\ dl_last.made
    /\ dl_last.nome_file = <<".", ".", "/">>
    /\ DOMAIN files = {path_join(project_folder, <<".", ".", "_">>)}
    /\ dirs = makedirs(project_folder)

\* the records of the export whose include field equals "YES", in file order
MarkedYes == SelectSeq(csv_rows, LAMBDA row : row.include = "YES")

\* what the driver notes of a record it processes
RecordOf(row) == [url |-> row.doc_url, id |-> row.id]

\* C29: the "download selected projects" driver processes exactly the
\* records of the export whose include field equals "YES", each once and in
\* file order, and fetches nothing for any other record: the records
\* processed so far are the first ones marked "YES", all of them once the
\* run is over, and every page requested is a page of the doc_url of a
\* record marked "YES".
C29_ExactlyMarkedYes ==
    /\ Len(resolved) <= Len(MarkedYes)
    /\ \A i \in 1..Len(resolved) : resolved[i] = RecordOf(MarkedYes[i])
    /\ pc = "done" => Len(resolved) = Len(MarkedYes)
    /\ \A k \in 1..Len(doc_reqs) :
          \E i \in 1..Len(MarkedYes) : doc_reqs[k].path = MarkedYes[i].doc_url.path

\* C30: a failure at the listing level stops its own stage only.  A
\* documents page that cannot be fetched or lacks the table ends the crawl
\* of its procedure with that request, and the crawl returns the refs the
\* earlier pages gave; a detail page that cannot be fetched gives no
\* procedure URL; and in both cases main goes on, with the documents
\* returned and then the next procedure URL, or with the next detail URL.
C30_ListingFailureIsSoftStop ==
    /\ [][(pc = "doc_fetch" /\ pc' = "doc_done") =>
            /\ doc_fail' \in {"fetch", "table"}
            /\ doc_links' = doc_links
            /\ Len(doc_reqs') = doc_page]_vars
    /\ [][pc = "doc_done" =>
            /\ pc' = "main_doc"
            /\ dk' = 1
            /\ UNCHANGED <<doc_links, procedure_urls, pj, di>>]_vars
    /\ [][(pc = "main_detail" /\ pc' = "main_proc") =>
            /\ last_net' = Requested
            /\ procedure_urls' = <<>>
            /\ pj' = 1
            /\ di' = di]_vars
    /\ [][(pc = "main_proc" /\ pj > Len(procedure_urls)) =>
            (pc' = "main_detail" /\ di' = di + 1)]_vars

\* in the second project, page 2 of a procedure could not be fetched after
\* page 1 gave a document
C30_Witness ==
    /\ pc = "doc_done"
    /\ doc_fail = "fetch"
    /\ doc_page = 2
    /\ Len(doc_links) = 1
    /\ di = 2

\* C31: the link list of the search crawl is insertion-ordered.  A link met
\* for the first time goes to the end of the list; an anchor whose link is
\* in the list already, from this page or an earlier one, leaves the list
\* as it is; and no other step of the crawl touches the list.  So the links
\* stand in the order of their first occurrence, by page and then by
\* position on the page.
C31_InsertionOrdered ==
    /\ [](NoDup(all_links) /\ ToSet(all_links) = seen)
    /\ [][(pc = "search_scan" /\ scanned' = scanned + 1) =>
            IF seen' = seen
            THEN all_links' = all_links
            ELSE \E u \in seen' \ seen :
                    /\ seen' = seen \cup {u}
                    /\ all_links' = Append(all_links, u)]_vars
    /\ [][scanned' # scanned + 1 => all_links' = all_links]_vars

\* page 2 carried two project links: the one of project 3 went to the end,
\* the other was in the list since page 1 and stayed where it was
C31_Witness ==
    /\ pc = "search_scan"
    /\ page = 2
    /\ scanned = 2
    /\ acc_prev = <<Url(BASE_URL.host, InfoPath("2")), Url(BASE_URL.host, InfoPath("1"))>>
    /\ all_links = Append(acc_prev, Url(BASE_URL.host, InfoPath("3")))

\* the most fetches a loop makes when no page prints a total above M
MostFetches(M) == IF M > 1 THEN M ELSE 1

\* C32: whatever the server answers, the search crawl and the documents
\* crawl of main.py request the pages 1, 2, ..., k in turn; each stops at
\* the first page whose fetch fails, which lacks the table (documents), or
\* which prints a total that is not above its own index, and goes on to the
\* next index otherwise; a crawl that has stopped makes no further request.
\* So with no total above M a crawl makes at most max(1, M) fetches.
C32_PaginationLoopsStop ==
    /\ [](/\ \A i \in 1..Len(reqs) : reqs[i].pagina = i
          /\ \A i \in 1..Len(doc_reqs) :
                doc_reqs[i] = doc_page_url(procedure_urls[pj], i)
          /\ pc \in {"search_scan", "search_done"} => Len(reqs) = page
          /\ pc \in {"doc_rows", "doc_done"} => Len(doc_reqs) = doc_page
          /\ Len(reqs) <= MostFetches(site.max_total)
          /\ Len(doc_reqs) <= MostFetches(site.max_total))
    /\ [][pc = "search_fetch" =>
            /\ Len(reqs') = Len(reqs) + 1
            /\ pc' = IF failed_at' = page THEN "search_done" ELSE "search_scan"]_vars
    /\ [][(pc = "search_scan" /\ pc' # "search_scan") =>
            /\ reqs' = reqs
            /\ IF total_pages' <= page
               THEN pc' = "search_done" /\ page' = page
               ELSE pc' = "search_fetch" /\ page' = page + 1]_vars
    /\ [][pc = "search_done" => (pc' = "main_detail" /\ last_net' = last_net)]_vars
    /\ [][pc = "doc_fetch" =>
            /\ Len(doc_reqs') = Len(doc_reqs) + 1
            /\ pc' = IF doc_fail' \in {"fetch", "table"} THEN "doc_done" ELSE "doc_rows"]_vars
    /\ [][(pc = "doc_rows" /\ pc' # "doc_rows") =>
            /\ doc_reqs' = doc_reqs
            /\ IF doc_total' <= doc_page
               THEN pc' = "doc_done" /\ doc_page' = doc_page
               ELSE pc' = "doc_fetch" /\ doc_page' = doc_page + 1]_vars
    /\ [][pc = "doc_done" => (pc' = "main_doc" /\ last_net' = last_net)]_vars

\* page 1 of a procedure printed the total 2 and page 2 the total 1: the
\* crawl stopped after two requests
C32_Witness ==
    /\ pc = "doc_done"
    /\ doc_fail = "none"
    /\ doc_page = 2
    /\ doc_total = 1
    /\ doc_labelled
    /\ Len(doc_reqs) = 2

\* the destination path of document k of the list
RefPath(k) == path_join(project_folder, sanitize(doc_links[k].nome_file))

\* the first document of the list that has the destination path of document k
FirstWithPath(k) == CHOOSE j \in 1..k :
    /\ RefPath(j) = RefPath(k)
    /\ \A i \in 1..(j - 1) : RefPath(i) # RefPath(k)

\* C33 as stated: of the documents of a list that have the same destination
\* path only the first is fetched and written; every later one is skipped
\* without a request, and the file holds what the first one gave.
C33_OnlyFirstFetched ==
    [][(pc = "main_doc" /\ dk <= Len(doc_links)) =>
        /\ dl_tick' # dl_tick
        /\ IF FirstWithPath(dk) = dk
           THEN dl_last'.fetched
           ELSE /\ dl_last'.result = "skipped"
                /\ last_net' = last_net
                /\ files' = files
                /\ RefPath(dk) \in DOMAIN files
                /\ files[RefPath(dk)].src = doc_links[FirstWithPath(dk)].url]_vars

\* C33 amended: every document of the list is handed to download_file,
\* clashing names or not.  The call is skipped, without a request and
\* without touching the disk, exactly when a file stands at the destination
\* path; otherwise the document is fetched, and a file it leaves holds its
\* content.  A file once there is never replaced, so each file holds what
\* the first document whose download created it gave.
C33_FirstSavedWins ==
    /\ [][(pc = "main_doc" /\ dk <= Len(doc_links)) =>
            /\ dl_tick' # dl_tick
            /\ dl_last'.url = doc_links[dk].url
            /\ IF RefPath(dk) \in DOMAIN files
               THEN /\ dl_last'.result = "skipped"
                    /\ last_net' = last_net
                    /\ files' = files
               ELSE /\ dl_last'.fetched
                    /\ last_net' = Requested
                    /\ RefPath(dk) \in DOMAIN files' =>
                          files'[RefPath(dk)].src = doc_links[dk].url]_vars
    /\ [][\A p \in DOMAIN files : p \in DOMAIN files' /\ files'[p] = files[p]]_vars

\* the second document has the destination of the first, whose download
\* met a transport failure: it was fetched, and the file holds its content
C33_Witness ==
    /\ pc = "main_doc_sleep"
    /\ dk = 2
    /\ doc_links[1].nome_file = <<"a", "/", "b">>
    /\ doc_links[2].nome_file = <<"a", "_", "b">>
    /\ doc_links[1].url # doc_links[2].url
    /\ dl_last.fetched /\ dl_last.result = "ok"
    /\ DOMAIN files = {RefPath(2)}
    /\ files[RefPath(2)].src = doc_links[2].url

\* the procedure URLs a detail page of a steady registry links
LinkedProcedures ==
    {urljoin(BASE_URL, server.detail[k]) :
        k \in {i \in 1..Len(server.detail) : HrefContains(server.detail[i], DOC_PATTERN)}}

\* the requests of this run for the first page of procedure u
CrawlsOf(u) == SelectSeq(net_log, LAMBDA e : e.kind = "listing" /\ e.url = u)

\* the detail pages of this run that were served
ServedDetails == {i \in 1..Len(detail_urls) : detail_urls[i] \notin server.down}

\* C34: the list one get_procedura_links call builds and returns holds no
\* URL twice, and that is all the deduplication there is: a procedure that
\* several detail pages link is crawled once for each of them, so at the
\* end of a run it has been requested as often as detail pages were served.
C34_DedupPerDetailPage ==
    /\ NoDup(procedura_links)
    /\ NoDup(procedure_urls)
    /\ pc = "done" =>
          \A u \in LinkedProcedures : Len(CrawlsOf(u)) = Cardinality(ServedDetails)

\* both detail pages carried the link of procedure 1 twice: the run is over
\* and the procedure was crawled twice, once for each detail page
C34_Witness ==
    /\ pc = "done"
    /\ Len(detail_urls) = 2
    /\ server.down = {}
    /\ server.detail = <<Href("root", "", DocPath("1")), Href("root", "", DocPath("1"))>>
    /\ Len(CrawlsOf(Url(BASE_URL.host, DocPath("1")))) = 2

\* the folder main makes for a detail URL it gave the id `id`
FolderOf(id) == Append(base_save_dir, id)

\* C35: in a run for documents every detail URL the search crawl returned
\* holds the documentation pattern and no "/Info/<digits>" marker and gets
\* the sentinel id, so there is one project folder for the whole run and
\* every file of the run is in it; in a run for projects each detail URL
\* has the folder named by its id, so two detail URLs with different ids
\* have different folders, and a file is saved in the folder of the detail
\* URL at hand.
C35_FolderPerSearchType ==
    /\ [](search_type = "d" =>
            /\ \A i \in 1..Len(detail_urls) :
                  /\ detail_urls[i].path = DOC_PATTERN \o <<detail_urls[i].path[4]>>
                  /\ MarkerPositions(detail_urls[i]) = {}
            /\ \A k \in 1..Len(resolved) : resolved[k].id = "UnknownProject"
            /\ \A p \in DOMAIN files : p.dir = FolderOf("UnknownProject"))
    /\ [](\A k \in 1..Len(resolved) : FolderOf(resolved[k].id) \in dirs)
    /\ [](resolved # <<>> => project_folder = FolderOf(resolved[Len(resolved)].id))
    /\ [](search_type = "o" =>
            \A i, j \in 1..Len(resolved) :
                resolved[i].url.path[4] # resolved[j].url.path[4] =>
                    FolderOf(resolved[i].id) # FolderOf(resolved[j].id))
    /\ [][dl_tick' # dl_tick => dl_last'.save_path = project_folder]_vars

\* a run for documents is over: its two detail URLs shared the sentinel
\* folder, where the document of the second was skipped because the first
\* had left a file of that name
C35_Witness ==
    /\ pc = "done"
    /\ search_type = "d"
    /\ Len(resolved) = 2
    /\ resolved[1].url # resolved[2].url
    /\ dl_last.made /\ dl_last.result = "skipped"
    /\ DOMAIN files = {path_join(FolderOf("UnknownProject"), <<"a", "_", "b">>)}

\* what a crawler does once the rows of page doc_page are read and the
\* page carries the pagination markup `soup`
StepAfter(variant, soup) ==
    IF more_pages(variant, doc_page, soup)
    THEN [pc |-> "doc_fetch", doc_page |-> doc_page + 1]
    ELSE [pc |-> "doc_done", doc_page |-> doc_page]

\* C36: the crawlers of eng/main.py, eng/download_from_project_list.py and
\* imparis.py are observationally equivalent.  Wherever one of them stands
\* after the rows of a page, with the requests made and the pairs gathered
\* so far, the three decide alike on whatever pagination markup the page
\* carries: all go on to the next page or all return; the step taken is
\* that common decision, and it changes neither the requests nor the pairs.
C36_CrawlersAgree ==
    /\ [](pc = "doc_rows" =>
            \A soup \in ServedSoups : \A v, w \in Crawlers :
                StepAfter(v, soup) = StepAfter(w, soup))
    /\ [][(pc = "doc_rows" /\ pc' # "doc_rows") =>
            /\ \E soup \in ServedSoups : \A v \in Crawlers :
                  StepAfter(v, soup) = [pc |-> pc', doc_page |-> doc_page']
            /\ UNCHANGED <<doc_reqs, doc_links>>]_vars
    /\ [](\A i \in 1..Len(doc_reqs) :
            doc_reqs[i] = doc_page_url(procedure_urls[pj], i))

\* the crawler of download_from_project_list.py has returned after page 2,
\* which carried no pagination label, with the documents of both pages
C36_Witness ==
    /\ doc_variant = "selected"
    /\ pc = "doc_done"
    /\ doc_fail = "none"
    /\ doc_page = 2
    /\ ~doc_labelled
    /\ Len(doc_reqs) = 2
    /\ Len(doc_links) = 2

\* the decimal degrees a degrees-minutes-seconds text stands for
DmsLatitude(p, style) ==
    LET sec == IF style = "tenths" THEN [n |-> 10 * p.lat_sec + 2, d |-> 10]
               ELSE [n |-> p.lat_sec, d |-> 1]
        lat == DmsDegrees([n |-> p.lat_deg, d |-> 1], [n |-> p.lat_min, d |-> 1], sec)
    IN  IF p.lat_dir = "S" THEN Negated(lat) ELSE lat

DmsLongitude(p, style) ==
    LET sec == IF style = "tenths" THEN [n |-> 10 * p.lon_sec + 5, d |-> 10]
               ELSE [n |-> p.lon_sec, d |-> 1]
        lon == DmsDegrees([n |-> p.lon_deg, d |-> 1], [n |-> p.lon_min, d |-> 1], sec)
    IN  IF p.lon_dir = "W" THEN Negated(lon) ELSE lon

\* the decimal degrees a decimal-degrees text stands for
DdLatitude(p) == IF p.lat_dir = "S" THEN Negated(float(p.lat)) ELSE float(p.lat)
DdLongitude(p) == IF p.lon_dir = "W" THEN Negated(float(p.lon)) ELSE float(p.lon)

Returned(lat, lon) ==
    /\ co_ret # PyNone
    /\ Same(co_ret.lat, lat)
    /\ Same(co_ret.lon, lon)

\* a decimal-degrees text gives its two numbers, negated for S and W
DdTextIsConverted ==
    pc = "coord_done" =>
        \A p \in DdParams :
            co_text = DdText(p) => Returned(DdLatitude(p), DdLongitude(p))

\* a degrees-minutes-seconds text gives degrees + minutes/60 + seconds/3600
\* for each axis, negated for S and W
DmsTextIsConverted ==
    pc = "coord_done" =>
        \A p \in DmsParams : \A style \in DmsStyles :
            co_text = DmsText(p, style) =>
                Returned(DmsLatitude(p, style), DmsLongitude(p, style))

\* C37: parse_coordinates returns (latitude, longitude) in decimal degrees
\* for each supported format: the two numbers of a decimal-degrees text,
\* and degrees + minutes/60 + seconds/3600 for each axis of a
\* degrees-minutes-seconds text, negated for S and W.
C37_DecimalDegreesForEachFormat ==
    /\ DdTextIsConverted
    /\ DmsTextIsConverted

\* what the code does with a degrees-minutes-seconds text: dd_pattern,
\* tried first, matches the degrees as lat and the minutes as lon, so the
\* latitude degrees and the latitude minutes come back, never negated
DmsTextGivesDegreesAndMinutes ==
    pc = "coord_done" =>
        \A p \in DmsParams : \A style \in DmsStyles :
            co_text = DmsText(p, style) =>
                co_ret = Pair([n |-> p.lat_deg, d |-> 1], [n |-> p.lat_min, d |-> 1])

\* no text that dms_pattern matches gets past dd_pattern
DmsBranchNeverTaken ==
    pc = "coord_done" =>
        LET t == upper_text(strip(co_text))
        IN  dms_search(t).found => re_search(dd_pattern, t).found

\* parse_coordinates has returned for 41°24'12"N 2°10'26"E
DmsExampleParsed ==
    /\ pc = "coord_done"
    /\ co_text = DmsText([lat_deg |-> MaxDegree, lat_min |-> MaxMinute,
                          lat_sec |-> MaxSecond, lat_dir |-> "N",
                          lon_deg |-> 2, lon_min |-> 10, lon_sec |-> 26,
                          lon_dir |-> "E"], "plain")

====
